---- MODULE Spec2Model ----
(***************************************************************************)
(* Trade lifecycle and portfolio ledger of the paper-trading backend:      *)
(* TradingEngine (services/tradingEngine.ts), TradingStrategy              *)
(* (services/strategy.ts), DatabaseManager (database/index.ts) and the     *)
(* trades routes.                                                          *)
(*                                                                         *)
(* The backend is a single Node.js process.  Every engine method is an     *)
(* async function: it runs without interruption up to an await on real     *)
(* I/O (quote / bar fetch, bracket-order placement) and any other request  *)
(* or job may run while it is suspended there.  Each invocation is a task; *)
(* one action of the model is the code a task runs between two such        *)
(* suspension points.  Money is in whole dollars; the inputs are chosen so *)
(* that every product and quotient of the code is exact.                   *)
(***************************************************************************)
EXTENDS Integers, Sequences, FiniteSets, TLC

(***************************************************************************)
(* Bounds and input sets                                                   *)
(***************************************************************************)
MaxTrades == 2

Symbols == {"A", "B"}

InitialCash == 100000

RiskPerTradePct == 2

MaxPositionPct == 10

RsiOversold == 30

RsiOverbought == 70

\* config.screening
MinPrice == 5

MaxPrice == 500

MinRsi == 25

MaxRsi == 35

\* new Date().toISOString(): only whether a timestamp is set is modelled
Now == "now"

Some(v) == <<v>>

None == <<>>

\* quotes the provider may return for a symbol, and a failed fetch
Prices == {70, 100, 130}

QuoteResults == [ok : {TRUE}, price : Prices] \cup {[ok |-> FALSE, price |-> 0]}

\* indicator values getIndicators may compute from the fetched bars, and a
\* failed fetch (getDailyData throws, or too few bars)
DailyResults ==
  { [ok |-> TRUE,  rsi |-> 25, maShort |-> 105, maLong |-> 100],
    [ok |-> TRUE,  rsi |-> 50, maShort |-> 100, maLong |-> 100],
    [ok |-> TRUE,  rsi |-> 75, maShort |-> 95,  maLong |-> 100],
    [ok |-> TRUE,  rsi |-> 75, maShort |-> 105, maLong |-> 100],
    [ok |-> FALSE, rsi |-> 0,  maShort |-> 0,   maLong |-> 0] }

\* request bodies of POST /api/trades: proposed trades, status OPEN
ManualSymbols == {"A"}

ManualShapes ==
  { [action |-> "BUY",  quantity |-> 600, stopLoss |-> 90,  takeProfit |-> 130],
    [action |-> "SELL", quantity |-> 600, stopLoss |-> 110, takeProfit |-> 70] }

ManualTrades ==
  { [symbol |-> s, action |-> m.action, quantity |-> m.quantity, entryPrice |-> 100,
     stopLoss |-> m.stopLoss, takeProfit |-> m.takeProfit, status |-> "OPEN"] :
    s \in ManualSymbols, m \in ManualShapes }

\* what analyzeStock may compute from the bars of a symbol: rsi, the two
\* moving averages, ATR, support, resistance and the latest close
IndicatorInputs ==
  { [ok |-> TRUE, rsi |-> 25, maShort |-> 105, maLong |-> 100, atr |-> 5,
     support |-> 50, resistance |-> 200, close |-> 100],
    [ok |-> TRUE, rsi |-> 75, maShort |-> 95, maLong |-> 100, atr |-> 5,
     support |-> 50, resistance |-> 200, close |-> 100],
    [ok |-> TRUE, rsi |-> 50, maShort |-> 100, maLong |-> 100, atr |-> 5,
     support |-> 50, resistance |-> 200, close |-> 100],
    [ok |-> FALSE, rsi |-> 0, maShort |-> 0, maLong |-> 0, atr |-> 0,
     support |-> 0, resistance |-> 0, close |-> 0] }

\* the symbol lists handed to a batch run
SymbolLists == {<<"A", "B">>}

NoTrade ==
  [symbol |-> "", action |-> "", quantity |-> 0, entryPrice |-> 0,
   stopLoss |-> 0, takeProfit |-> 0, status |-> ""]

(***************************************************************************)
(* State                                                                   *)
(***************************************************************************)
VARIABLES
  trades,      \* the trades table: row i has id i (AUTOINCREMENT, no delete)
  cash,        \* portfolio.cash
  useAlpaca,   \* config.trading.useAlpaca
  req,         \* the single-trade request in flight (POST /api/trades, POST /:id/close)
  job,         \* the batch pass in flight (monitorPositions, analyzeAndTrade...)
  ret,         \* how the most recently finished single-trade request ended
  screening,   \* the screening_results table and the execution phase in flight
  totalValue,  \* portfolio.totalValue
  limiter,     \* the call counter of AlpacaMarketDataService, its callers, the clock
  quotes,      \* the quote cache of the service, the quote_cache table, the clock
  probe        \* a pure function under test: its input and, once applied, output

ledger ==
  <<trades, cash, useAlpaca, req, job, ret, screening, totalValue, limiter, quotes>>

vars ==
  <<trades, cash, useAlpaca, req, job, ret, screening, totalValue, limiter, quotes,
    probe>>

\* what the trade handlers and the batch passes neither read nor write
aside == <<screening, totalValue, limiter, quotes, probe>>

\* screening_results: no row, the AUTOINCREMENT counter at 0; no execution
\* phase in flight; consumed[id] counts the times the execution phase has
\* processed result id
MaxResultId == 4

NoScreening ==
  [rows |-> {}, lastId |-> 0, pc |-> "idle", todo |-> {},
   consumed |-> [id \in 1..MaxResultId |-> 0]]

\* the callers of the market-data service that may overlap
Callers == {"c1", "c2"}

\* the limiter's clock runs to LimiterMaxTime, in units of 30 s
LimiterMaxTime == 4

\* the service as constructed at time 0 (alpacaMarketData.ts lines 12-13):
\* no call counted, no caller inside waitForRateLimit; calls[t] counts the
\* provider calls admitted at time t and starts holds the values
\* lastResetTime has taken
NoLimiter ==
  [now |-> 0, apiCallCount |-> 0, lastResetTime |-> 0,
   pc |-> [c \in Callers |-> "idle"], wake |-> [c \in Callers |-> 0],
   calls |-> [t \in 0..LimiterMaxTime |-> 0], starts |-> {0}]

\* the quote clock runs to QuoteMaxTime, in units of 100 s
QuoteMaxTime == 40

\* both caches empty (alpacaMarketData.ts line 9, the quote_cache table);
\* returned is what the getQuote call in progress has returned
NoQuotes ==
  [now |-> 0, quoteCache |-> None, dbCache |-> None, returned |-> None]

IdleReq == [pc |-> "idle", trade |-> NoTrade, tid |-> 0, portfolioCash |-> 0]

IdleJob ==
  [op |-> "none", pc |-> "idle", openTrades |-> <<>>, i |-> 0, fired |-> {},
   failed |-> {}, result |-> "ok", symbols |-> <<>>, screened |-> <<>>, trade |-> NoTrade,
   portfolioCash |-> 0, analyzedStocks |-> <<>>, tradesCreated |-> 0,
   todo |-> <<>>]

\* what executeTrade hands to a caller that does not await it
PromiseId == [promise |-> TRUE, value |-> 0]

NumberId(n) == [promise |-> FALSE, value |-> n]

\* a lookup that finds no row for a parameter that is not a number
getTradeLenient(ts, id) ==
  IF id.promise THEN [threw |-> FALSE, row |-> None]
  ELSE IF id.value \in 1..Len(ts) THEN [threw |-> FALSE, row |-> Some(ts[id.value])]
  ELSE [threw |-> FALSE, row |-> None]

\* DatabaseManager.getTrade: stmt.get(id) binds numbers, strings, bigints,
\* buffers and null only, and throws a TypeError on any other parameter
getTrade(ts, id) ==
  IF id.promise THEN [threw |-> TRUE, row |-> None]
  ELSE IF id.value \in 1..Len(ts) THEN [threw |-> FALSE, row |-> Some(ts[id.value])]
  ELSE [threw |-> FALSE, row |-> None]

\* POST /api/trades, lines 108-113: executeTrade is not awaited, the
\* handler looks its promise up as an id and answers 201, or 500 from its
\* catch
createTradeStatus(ts) == IF getTrade(ts, PromiseId).threw THEN 500 ELSE 201

\* POST /api/trades/:id/close, lines 119-126: closeTrade is awaited
closeTradeStatus(result) == IF result = "ok" THEN 200 ELSE 500

\* how a request ended: "ok" (returned), "pending" (still suspended) or the
\* error it threw; warned: a problem was logged on the way to a normal
\* return; status: the response of its endpoint (the lookup by a promise
\* stops at the parameter, whatever rows the table holds)
Responded(op, result, warned) ==
  [op |-> op, result |-> result, warned |-> warned,
   status |-> IF op = "executeTrade" THEN createTradeStatus(trades)
              ELSE IF op = "closeTrade" THEN closeTradeStatus(result)
              ELSE 0]

Returned(op, result) == Responded(op, result, FALSE)

Warned(op) == Responded(op, "ok", TRUE)

(***************************************************************************)
(* TechnicalAnalysis.getIndicators: the signal rule                        *)
(***************************************************************************)
\* a rule whose RSI thresholds are inclusive
signalRuleInclusive(rsi, maShort, maLong) ==
  IF rsi <= RsiOversold /\ maShort > maLong THEN "BUY"
  ELSE IF rsi >= RsiOverbought /\ maShort < maLong THEN "SELL"
  ELSE "HOLD"

signalRule(rsi, maShort, maLong) ==
  IF rsi < RsiOversold /\ maShort > maLong THEN "BUY"
  ELSE IF rsi > RsiOverbought /\ maShort < maLong THEN "SELL"
  ELSE "HOLD"

Max(a, b) == IF a >= b THEN a ELSE b

Min(a, b) == IF a <= b THEN a ELSE b

Abs(a) == IF a >= 0 THEN a ELSE 0 - a

(***************************************************************************)
(* TradingStrategy.analyzeStock on the indicators x computed from the      *)
(* fetched bars (x.ok = FALSE: the fetch failed or returned too few bars). *)
(***************************************************************************)
AnalysisFailed ==
  [ok |-> FALSE, shouldTrade |-> FALSE, action |-> "HOLD", rsi |-> 0, maShort |-> 0,
   maLong |-> 0, entryPrice |-> 0, stopLoss |-> 0, takeProfit |-> 0]

\* an analysis whose SELL target is set on the BUY side of the entry
analyzeStockSellTargetAbove(x) ==
  IF ~x.ok THEN AnalysisFailed
  ELSE LET signal == signalRule(x.rsi, x.maShort, x.maLong)
           currentPrice == x.close
           buyStop == Max(currentPrice - 2 * x.atr, (x.support * 98) \div 100)
           sellStop == Min(currentPrice + 2 * x.atr, (x.resistance * 102) \div 100)
       IN [ok |-> TRUE, shouldTrade |-> signal # "HOLD", action |-> signal,
           rsi |-> x.rsi, maShort |-> x.maShort, maLong |-> x.maLong,
           entryPrice |-> currentPrice,
           stopLoss |-> IF signal = "BUY" THEN buyStop
                        ELSE IF signal = "SELL" THEN sellStop ELSE 0,
           takeProfit |-> IF signal = "BUY"
                          THEN currentPrice + (currentPrice - buyStop) * 3
                          ELSE IF signal = "SELL"
                          THEN currentPrice + (sellStop - currentPrice) * 3 ELSE 0]

\* an analysis that recommends a trade whatever the signal
analyzeStockAlwaysTrade(x) ==
  IF ~x.ok THEN AnalysisFailed
  ELSE LET signal == signalRule(x.rsi, x.maShort, x.maLong)
           currentPrice == x.close
           buyStop == Max(currentPrice - 2 * x.atr, (x.support * 98) \div 100)
           sellStop == Min(currentPrice + 2 * x.atr, (x.resistance * 102) \div 100)
       IN [ok |-> TRUE, shouldTrade |-> TRUE, action |-> signal,
           rsi |-> x.rsi, maShort |-> x.maShort, maLong |-> x.maLong,
           entryPrice |-> currentPrice,
           stopLoss |-> IF signal = "BUY" THEN buyStop
                        ELSE IF signal = "SELL" THEN sellStop ELSE 0,
           takeProfit |-> IF signal = "BUY"
                          THEN currentPrice + (currentPrice - buyStop) * 3
                          ELSE IF signal = "SELL"
                          THEN currentPrice - (sellStop - currentPrice) * 3 ELSE 0]

analyzeStock(x) ==
  IF ~x.ok THEN AnalysisFailed
  ELSE LET signal == signalRule(x.rsi, x.maShort, x.maLong)
           currentPrice == x.close
           buyStop == Max(currentPrice - 2 * x.atr, (x.support * 98) \div 100)
           sellStop == Min(currentPrice + 2 * x.atr, (x.resistance * 102) \div 100)
       IN [ok |-> TRUE, shouldTrade |-> signal # "HOLD", action |-> signal,
           rsi |-> x.rsi, maShort |-> x.maShort, maLong |-> x.maLong,
           entryPrice |-> currentPrice,
           stopLoss |-> IF signal = "BUY" THEN buyStop
                        ELSE IF signal = "SELL" THEN sellStop ELSE 0,
           takeProfit |-> IF signal = "BUY"
                          THEN currentPrice + (currentPrice - buyStop) * 3
                          ELSE IF signal = "SELL"
                          THEN currentPrice - (sellStop - currentPrice) * 3 ELSE 0]

AnalysisResults == {analyzeStock(x) : x \in IndicatorInputs}

\* screenStocks: the criteria of config.screening (requireMaCrossover unset)
meetsCriteria(analysis) ==
  /\ analysis.entryPrice >= MinPrice /\ analysis.entryPrice <= MaxPrice
  /\ analysis.rsi >= MinRsi /\ analysis.rsi <= MaxRsi
  /\ analysis.shouldTrade

\* an iteration that also records a symbol whose analysis threw
screenStepRecordingFailure(results, symbol, x) ==
  LET analysis == analyzeStock(x)
  IN IF ~analysis.ok \/ meetsCriteria(analysis)
     THEN Append(results, [symbol |-> symbol, analysis |-> analysis])
     ELSE results

\* screenStocks, one iteration of the loop (lines 399-423): the analysis of
\* symbol resolves to analyzeStock(x) or throws into the catch
screenStep(results, symbol, x) ==
  LET analysis == analyzeStock(x)
  IN IF analysis.ok /\ meetsCriteria(analysis)
     THEN Append(results, [symbol |-> symbol, analysis |-> analysis])
     ELSE results

RECURSIVE screenLoop(_, _, _)
screenLoop(results, symbols, xs) ==
  IF symbols = <<>> THEN results
  ELSE screenLoop(screenStep(results, Head(symbols), Head(xs)),
                  Tail(symbols), Tail(xs))

\* screenStocks(symbols) when the analysis of symbols[k] meets xs[k]
screenStocks(symbols, xs) == screenLoop(<<>>, symbols, xs)

\* floor of a quotient as Math.floor computes it, also for a negative balance
Floor(n, d) == n \div d

\* a position size without the cap on the position's share of the balance
calculatePositionSizeUncapped(accountBalance, entryPrice, stopLoss) ==
  LET riskPerShare == Abs(entryPrice - stopLoss)
  IN IF riskPerShare = 0 THEN 0
     ELSE Floor(accountBalance * RiskPerTradePct, 100 * riskPerShare)

calculatePositionSize(accountBalance, entryPrice, stopLoss) ==
  LET riskPerShare == Abs(entryPrice - stopLoss)
  IN IF riskPerShare = 0 THEN 0
     ELSE Min(Floor(accountBalance * RiskPerTradePct, 100 * riskPerShare),
              Floor(accountBalance * MaxPositionPct, 100 * entryPrice))

createTradeFromAnalysis(symbol, analysis, accountBalance) ==
  [symbol |-> symbol, action |-> analysis.action,
   quantity |-> calculatePositionSize(accountBalance, analysis.entryPrice,
                                      analysis.stopLoss),
   entryPrice |-> analysis.entryPrice, stopLoss |-> analysis.stopLoss,
   takeProfit |-> analysis.takeProfit, status |-> "OPEN"]

(***************************************************************************)
(* TradingStrategy.checkExitConditions(trade) with the quote q and the     *)
(* bars-derived indicators d the provider returns for trade.symbol.  The   *)
(* function reads only its argument and the provider, so its two awaits    *)
(* are taken in one step.                                                  *)
(***************************************************************************)
Threw == [threw |-> TRUE, shouldExit |-> FALSE, reason |-> "", currentPrice |-> 0]

\* an exit result that drops the fetched price
ExitResultNoPrice(exit, reason, price) ==
  [threw |-> FALSE, shouldExit |-> exit, reason |-> reason, currentPrice |-> 0]

ExitResult(exit, reason, price) ==
  [threw |-> FALSE, shouldExit |-> exit, reason |-> reason, currentPrice |-> price]

\* the exit check with the take-profit tests ahead of the stop-loss tests
checkExitConditionsTakeProfitFirst(trade, q, d) ==
  IF ~q.ok THEN Threw
  ELSE IF trade.action = "BUY" /\ q.price >= trade.takeProfit
    THEN ExitResult(TRUE, "Take profit target reached", q.price)
  ELSE IF trade.action = "SELL" /\ q.price <= trade.takeProfit
    THEN ExitResult(TRUE, "Take profit target reached", q.price)
  ELSE IF trade.action = "BUY" /\ q.price <= trade.stopLoss
    THEN ExitResult(TRUE, "Stop loss hit", q.price)
  ELSE IF trade.action = "SELL" /\ q.price >= trade.stopLoss
    THEN ExitResult(TRUE, "Stop loss hit", q.price)
  ELSE IF ~d.ok THEN Threw
  ELSE IF trade.action = "BUY"
          /\ (d.rsi > 70 \/ signalRule(d.rsi, d.maShort, d.maLong) = "SELL")
    THEN ExitResult(TRUE, "Technical reversal signal", q.price)
  ELSE IF trade.action = "SELL"
          /\ (d.rsi < 30 \/ signalRule(d.rsi, d.maShort, d.maLong) = "BUY")
    THEN ExitResult(TRUE, "Technical reversal signal", q.price)
  ELSE ExitResult(FALSE, "All conditions within acceptable range", q.price)

checkExitConditions(trade, q, d) ==
  IF ~q.ok THEN Threw
  ELSE IF trade.action = "BUY" /\ q.price <= trade.stopLoss
    THEN ExitResult(TRUE, "Stop loss hit", q.price)
  ELSE IF trade.action = "SELL" /\ q.price >= trade.stopLoss
    THEN ExitResult(TRUE, "Stop loss hit", q.price)
  ELSE IF trade.action = "BUY" /\ q.price >= trade.takeProfit
    THEN ExitResult(TRUE, "Take profit target reached", q.price)
  ELSE IF trade.action = "SELL" /\ q.price <= trade.takeProfit
    THEN ExitResult(TRUE, "Take profit target reached", q.price)
  ELSE IF ~d.ok THEN Threw
  ELSE IF trade.action = "BUY"
          /\ (d.rsi > 70 \/ signalRule(d.rsi, d.maShort, d.maLong) = "SELL")
    THEN ExitResult(TRUE, "Technical reversal signal", q.price)
  ELSE IF trade.action = "SELL"
          /\ (d.rsi < 30 \/ signalRule(d.rsi, d.maShort, d.maLong) = "BUY")
    THEN ExitResult(TRUE, "Technical reversal signal", q.price)
  ELSE ExitResult(FALSE, "All conditions within acceptable range", q.price)

(***************************************************************************)
(* DatabaseManager.  The audit columns of a row (strategy, entryReason,    *)
(* exitCriteria, rsi, maShort, maLong, notes) are written once by the      *)
(* INSERT and read by no engine code; they are left out.                   *)
(***************************************************************************)
\* createTrade: INSERT of the entry columns and of the status the caller
\* passes; the exit columns stay NULL
dbCreateTrade(ts, tr) ==
  Append(ts, [id |-> Len(ts) + 1, symbol |-> tr.symbol, action |-> tr.action,
              quantity |-> tr.quantity, entryPrice |-> tr.entryPrice,
              stopLoss |-> tr.stopLoss, takeProfit |-> tr.takeProfit,
              status |-> tr.status, exitPrice |-> None, exitDate |-> None,
              exitReason |-> None, pnl |-> None, pnlPercent |-> None])

\* a close that also clears the exit levels of the row
dbCloseTradeClearingLevels(ts, id, exitPrice, exitDate, exitReason) ==
  IF id \notin 1..Len(ts) THEN ts
  ELSE LET trade == ts[id]
           pnl == IF trade.action = "BUY"
                  THEN (exitPrice - trade.entryPrice) * trade.quantity
                  ELSE (trade.entryPrice - exitPrice) * trade.quantity
           pnlPercent == ((exitPrice - trade.entryPrice) * 100) \div trade.entryPrice
       IN [ts EXCEPT ![id] =
             [@ EXCEPT !.exitPrice = Some(exitPrice), !.exitDate = Some(exitDate),
                       !.exitReason = Some(exitReason), !.status = "CLOSED",
                       !.pnl = Some(pnl), !.pnlPercent = Some(pnlPercent),
                       !.stopLoss = 0, !.takeProfit = 0]]

\* a close whose UPDATE leaves exitReason out
dbCloseTradeWithoutReason(ts, id, exitPrice, exitDate, exitReason) ==
  IF id \notin 1..Len(ts) THEN ts
  ELSE LET trade == ts[id]
           pnl == IF trade.action = "BUY"
                  THEN (exitPrice - trade.entryPrice) * trade.quantity
                  ELSE (trade.entryPrice - exitPrice) * trade.quantity
           pnlPercent == ((exitPrice - trade.entryPrice) * 100) \div trade.entryPrice
       IN [ts EXCEPT ![id] =
             [@ EXCEPT !.exitPrice = Some(exitPrice), !.exitDate = Some(exitDate),
                       !.status = "CLOSED",
                       !.pnl = Some(pnl), !.pnlPercent = Some(pnlPercent)]]

\* a close whose pnlPercent takes the sign of the pnl
dbCloseTradeSignedPercent(ts, id, exitPrice, exitDate, exitReason) ==
  IF id \notin 1..Len(ts) THEN ts
  ELSE LET trade == ts[id]
           pnl == IF trade.action = "BUY"
                  THEN (exitPrice - trade.entryPrice) * trade.quantity
                  ELSE (trade.entryPrice - exitPrice) * trade.quantity
           pnlPercent == IF trade.action = "BUY"
                         THEN ((exitPrice - trade.entryPrice) * 100) \div trade.entryPrice
                         ELSE ((trade.entryPrice - exitPrice) * 100) \div trade.entryPrice
       IN [ts EXCEPT ![id] =
             [@ EXCEPT !.exitPrice = Some(exitPrice), !.exitDate = Some(exitDate),
                       !.exitReason = Some(exitReason), !.status = "CLOSED",
                       !.pnl = Some(pnl), !.pnlPercent = Some(pnlPercent)]]

\* closeTrade(id, exitPrice, exitDate, exitReason): pnl and the UPDATE
dbCloseTrade(ts, id, exitPrice, exitDate, exitReason) ==
  IF id \notin 1..Len(ts) THEN ts
  ELSE LET trade == ts[id]
           pnl == IF trade.action = "BUY"
                  THEN (exitPrice - trade.entryPrice) * trade.quantity
                  ELSE (trade.entryPrice - exitPrice) * trade.quantity
           pnlPercent == ((exitPrice - trade.entryPrice) * 100) \div trade.entryPrice
       IN [ts EXCEPT ![id] =
             [@ EXCEPT !.exitPrice = Some(exitPrice), !.exitDate = Some(exitDate),
                       !.exitReason = Some(exitReason), !.status = "CLOSED",
                       !.pnl = Some(pnl), !.pnlPercent = Some(pnlPercent)]]

\* getOpenTrades: ORDER BY entryDate DESC, the newest row first
RECURSIVE openIdsFrom(_, _)
openIdsFrom(ts, n) ==
  IF n = 0 THEN <<>>
  ELSE IF ts[n].status = "OPEN" THEN <<n>> \o openIdsFrom(ts, n - 1)
  ELSE openIdsFrom(ts, n - 1)

getOpenTrades(ts) == openIdsFrom(ts, Len(ts))

\* getTradesBySymbol(symbol).some(t => t.status === 'OPEN')
hasOpenPosition(ts, symbol) ==
  \E k \in 1..Len(ts) : ts[k].symbol = symbol /\ ts[k].status = "OPEN"

(***************************************************************************)
(* Initial state: a fresh database (portfolio row inserted with the        *)
(* initial cash, no trades) and the brokerage switch read from the         *)
(* environment.                                                            *)
(***************************************************************************)
InitLedger ==
  /\ trades = <<>>
  /\ cash = InitialCash
  /\ useAlpaca \in BOOLEAN
  /\ req = IdleReq
  /\ job = IdleJob
  /\ ret = Returned("none", "ok")
  /\ screening = NoScreening
  /\ totalValue = InitialCash
  /\ limiter = NoLimiter
  /\ quotes = NoQuotes

NoProbe == [fn |-> "none"]

Init == InitLedger /\ probe = NoProbe

(***************************************************************************)
(* TradingEngine.executeTrade                                              *)
(***************************************************************************)
cost(tr) == tr.entryPrice * tr.quantity

\* a funds check that compares the share count, not the cost
insufficientFundsByQuantity(tr, portfolioCash) ==
  tr.action = "BUY" /\ tr.quantity > portfolioCash

\* a funds check that is applied to short entries too
insufficientFundsAnyAction(tr, portfolioCash) == cost(tr) > portfolioCash

\* line 28: the funds check against the portfolio row just read
insufficientFunds(tr, portfolioCash) == tr.action = "BUY" /\ cost(tr) > portfolioCash

\* an entry that credits the proceeds of a short sale
cashAfterEntrySymmetric(tr, portfolioCash, currentCash) ==
  IF tr.action = "BUY" THEN portfolioCash - cost(tr) ELSE currentCash + cost(tr)

\* lines 56-63 and 73-80: cash is written for a BUY only, from the portfolio
\* row read at line 24
cashAfterEntry(tr, portfolioCash, currentCash) ==
  IF tr.action = "BUY" THEN portfolioCash - cost(tr) ELSE currentCash

\* POST /api/trades -> executeTrade(req.body), up to its first await
executeTrade(tr) ==
  /\ req.pc = "idle"
  /\ IF insufficientFunds(tr, cash)
     THEN /\ ret' = Returned("executeTrade", "Insufficient funds")
          /\ UNCHANGED <<trades, cash, req>>
     ELSE IF useAlpaca
     THEN /\ req' = [IdleReq EXCEPT !.pc = "placeBracketOrder", !.trade = tr,
                                    !.portfolioCash = cash]
          /\ ret' = Returned("executeTrade", "pending")
          /\ UNCHANGED <<trades, cash>>
     ELSE /\ Len(trades) < MaxTrades
          /\ trades' = dbCreateTrade(trades, tr)
          /\ cash' = cashAfterEntry(tr, cash, cash)
          /\ ret' = Returned("executeTrade", "ok")
          /\ UNCHANGED req
  /\ UNCHANGED <<useAlpaca, job>>

\* a placement whose failure is rethrown to the caller
executeTradePlacedOrThrow(placed) ==
  /\ req.pc = "placeBracketOrder"
  /\ Len(trades) < MaxTrades
  /\ IF placed
     THEN /\ trades' = dbCreateTrade(trades, req.trade)
          /\ cash' = cashAfterEntry(req.trade, req.portfolioCash, cash)
          /\ ret' = Returned("executeTrade", "ok")
     ELSE /\ ret' = Returned("executeTrade", "error")
          /\ UNCHANGED <<trades, cash>>
  /\ req' = IdleReq
  /\ UNCHANGED <<useAlpaca, job>>

\* the bracket order resolves (placed) or rejects (caught and logged, fall
\* through to the simulation): either way the row is inserted and cash is
\* written
executeTradePlaced(placed) ==
  /\ req.pc = "placeBracketOrder"
  /\ Len(trades) < MaxTrades
  /\ trades' = dbCreateTrade(trades, req.trade)
  /\ cash' = cashAfterEntry(req.trade, req.portfolioCash, cash)
  /\ req' = IdleReq
  /\ ret' = IF placed THEN Returned("executeTrade", "ok") ELSE Warned("executeTrade")
  /\ UNCHANGED <<useAlpaca, job>>

(***************************************************************************)
(* TradingEngine.closeTrade                                                *)
(***************************************************************************)
\* an exit that books the profit or loss, not the proceeds
cashAfterExitPnl(trade, exitPrice, portfolioCash) ==
  IF trade.action = "BUY"
  THEN portfolioCash + (exitPrice - trade.entryPrice) * trade.quantity
  ELSE portfolioCash - exitPrice * trade.quantity

\* lines 111-119: cash from a fresh portfolio read
cashAfterExit(trade, exitPrice, portfolioCash) ==
  IF trade.action = "BUY" THEN portfolioCash + exitPrice * trade.quantity
  ELSE portfolioCash - exitPrice * trade.quantity

\* closeTrade that returns quietly for an id without a row
closeTradeIgnoringUnknown(id) ==
  /\ req.pc = "idle"
  /\ IF id \notin 1..Len(trades)
     THEN ret' = Returned("closeTrade", "ok") /\ UNCHANGED req
     ELSE IF trades[id].status = "CLOSED"
     THEN ret' = Warned("closeTrade") /\ UNCHANGED req
     ELSE req' = [IdleReq EXCEPT !.pc = "checkExitConditions", !.tid = id]
          /\ UNCHANGED ret
  /\ UNCHANGED <<trades, cash, useAlpaca, job>>

\* closeTrade without the early return for a CLOSED row
closeTradeAgain(id) ==
  /\ req.pc = "idle"
  /\ IF id \notin 1..Len(trades)
     THEN ret' = Returned("closeTrade", "not found") /\ UNCHANGED req
     ELSE req' = [IdleReq EXCEPT !.pc = "checkExitConditions", !.tid = id]
          /\ UNCHANGED ret
  /\ UNCHANGED <<trades, cash, useAlpaca, job>>

\* POST /:id/close -> closeTrade(id), up to the await of the exit check
closeTrade(id) ==
  /\ req.pc = "idle"
  /\ IF id \notin 1..Len(trades)
     THEN ret' = Returned("closeTrade", "not found") /\ UNCHANGED req
     ELSE IF trades[id].status = "CLOSED"
     THEN ret' = Warned("closeTrade") /\ UNCHANGED req
     ELSE req' = [IdleReq EXCEPT !.pc = "checkExitConditions", !.tid = id]
          /\ UNCHANGED ret
  /\ UNCHANGED <<trades, cash, useAlpaca, job>>

\* the exit check resolves: the row is closed at the fetched price whatever
\* shouldExit says; a failed fetch is rethrown
closeTradeChecked(q, d) ==
  /\ req.pc = "checkExitConditions"
  /\ LET exitCheck == checkExitConditions(trades[req.tid], q, d)
     IN IF exitCheck.threw
        THEN /\ ret' = Returned("closeTrade", "error")
             /\ UNCHANGED <<trades, cash>>
        ELSE /\ trades' = dbCloseTrade(trades, req.tid, exitCheck.currentPrice,
                                       Now, exitCheck.reason)
             /\ cash' = cashAfterExit(trades[req.tid], exitCheck.currentPrice, cash)
             /\ ret' = Returned("closeTrade", "ok")
  /\ req' = IdleReq
  /\ UNCHANGED <<useAlpaca, job>>

(***************************************************************************)
(* TradingEngine.monitorPositions.  The loop holds the rows read by        *)
(* getOpenTrades; the columns it reads from them (symbol, action,          *)
(* stopLoss, takeProfit) never change, so the rows are kept as ids.        *)
(* job.fired collects the trades whose exit check (line 137) reported      *)
(* shouldExit, job.failed those for which a fetch threw.                   *)
(***************************************************************************)
monitorNext(j) ==
  IF j.i < Len(j.openTrades)
  THEN [j EXCEPT !.i = @ + 1, !.pc = "checkExitConditions"]
  ELSE [j EXCEPT !.i = @ + 1, !.pc = "return"]

\* a loop without the per-trade catch: the error ends the pass
monitorRethrow(j) ==
  [j EXCEPT !.failed = @ \cup {j.openTrades[j.i]}, !.pc = "return",
            !.result = "error"]

\* lines 143-145: the error of one trade is logged and the loop goes on
monitorCatch(j) == monitorNext([j EXCEPT !.failed = @ \cup {j.openTrades[j.i]}])

monitorPositions ==
  /\ job.pc = "idle"
  /\ LET openTrades == getOpenTrades(trades)
     IN IF openTrades = <<>>
        THEN UNCHANGED job
        ELSE job' = [IdleJob EXCEPT !.op = "monitorPositions",
                       !.pc = "checkExitConditions", !.openTrades = openTrades,
                       !.i = 1]
  /\ UNCHANGED <<trades, cash, useAlpaca, req, ret>>

\* line 137 resolves; on shouldExit the loop calls closeTrade(trade.id),
\* which re-reads the row and suspends at its own exit check
monitorChecked(q, d) ==
  /\ job.op = "monitorPositions"
  /\ job.pc = "checkExitConditions"
  /\ LET id == job.openTrades[job.i]
         exitCheck == checkExitConditions(trades[id], q, d)
     IN job' = IF exitCheck.threw THEN monitorCatch(job)
               ELSE IF ~exitCheck.shouldExit THEN monitorNext(job)
               ELSE IF trades[id].status = "CLOSED"
               THEN monitorNext([job EXCEPT !.fired = @ \cup {id}])
               ELSE [job EXCEPT !.pc = "closeTrade", !.fired = @ \cup {id}]
  /\ UNCHANGED <<trades, cash, useAlpaca, req, ret>>

\* the exit check inside closeTrade resolves (lines 102-119), or throws
\* through closeTrade into the loop's catch
monitorClosed(q, d) ==
  /\ job.op = "monitorPositions"
  /\ job.pc = "closeTrade"
  /\ LET id == job.openTrades[job.i]
         exitCheck == checkExitConditions(trades[id], q, d)
     IN IF exitCheck.threw
        THEN /\ job' = monitorCatch(job)
             /\ UNCHANGED <<trades, cash>>
        ELSE /\ trades' = dbCloseTrade(trades, id, exitCheck.currentPrice, Now,
                                       exitCheck.reason)
             /\ cash' = cashAfterExit(trades[id], exitCheck.currentPrice, cash)
             /\ job' = monitorNext(job)
  /\ UNCHANGED <<useAlpaca, req, ret>>

\* the promise of monitorPositions settles
monitorReturn ==
  /\ job.op = "monitorPositions"
  /\ job.pc = "return"
  /\ job.todo = <<>>
  /\ job' = IdleJob
  /\ UNCHANGED <<trades, cash, useAlpaca, req, ret>>

(***************************************************************************)
(* TradingEngine.analyzeAndTrade                                           *)
(***************************************************************************)
\* lines 157-185 from the entry `screened` on, run until the loop ends or
\* executeTrade suspends at the bracket order (trade # NoTrade)
RECURSIVE tradeLoop(_, _, _)
tradeLoop(screened, ts, c) ==
  IF screened = <<>>
  THEN [trades |-> ts, cash |-> c, screened |-> <<>>, trade |-> NoTrade,
        portfolioCash |-> 0]
  ELSE LET s == Head(screened)
           trade == createTradeFromAnalysis(s.symbol, s.analysis, c)
       IN IF hasOpenPosition(ts, s.symbol) THEN tradeLoop(Tail(screened), ts, c)
          ELSE IF trade.quantity <= 0 THEN tradeLoop(Tail(screened), ts, c)
          ELSE IF insufficientFunds(trade, c) THEN tradeLoop(Tail(screened), ts, c)
          ELSE IF useAlpaca
          THEN [trades |-> ts, cash |-> c, screened |-> Tail(screened),
                trade |-> trade, portfolioCash |-> c]
          ELSE tradeLoop(Tail(screened), dbCreateTrade(ts, trade),
                         cashAfterEntry(trade, c, c))

\* the state after tradeLoop stopped with outcome r
tradeLoopStopped(r) ==
  /\ Len(r.trades) <= MaxTrades
  /\ trades' = r.trades
  /\ cash' = r.cash
  /\ IF r.trade = NoTrade
     THEN job' = IdleJob
     ELSE job' = [IdleJob EXCEPT !.op = "analyzeAndTrade",
                    !.pc = "placeBracketOrder", !.screened = r.screened,
                    !.trade = r.trade, !.portfolioCash = r.portfolioCash]

analyzeAndTrade(symbols) ==
  /\ job.pc = "idle"
  /\ job' = [IdleJob EXCEPT !.op = "analyzeAndTrade", !.pc = "screenStocks",
                            !.symbols = symbols, !.i = 1]
  /\ UNCHANGED <<trades, cash, useAlpaca, req, ret>>

\* screenStocks: analyzeStock(symbols[i]) resolves to analyzeStock(x) or
\* throws; after the last symbol the trade loop runs
screenStocksAnalyzed(x) ==
  /\ job.op = "analyzeAndTrade"
  /\ job.pc = "screenStocks"
  /\ LET screened == screenStep(job.screened, job.symbols[job.i], x)
     IN IF job.i < Len(job.symbols)
        THEN /\ job' = [job EXCEPT !.i = @ + 1, !.screened = screened]
             /\ UNCHANGED <<trades, cash>>
        ELSE tradeLoopStopped(tradeLoop(screened, trades, cash))
  /\ UNCHANGED <<useAlpaca, req, ret>>

\* the bracket order of the loop's executeTrade resolves or rejects; the row
\* is inserted, cash written, and the loop goes on
analyzeAndTradePlaced(placed) ==
  /\ job.op = "analyzeAndTrade"
  /\ job.pc = "placeBracketOrder"
  /\ tradeLoopStopped(tradeLoop(job.screened, dbCreateTrade(trades, job.trade),
                                cashAfterEntry(job.trade, job.portfolioCash, cash)))
  /\ UNCHANGED <<useAlpaca, req, ret>>

(***************************************************************************)
(* TradingEngine.analyzeAndTradeWithResults                                *)
(***************************************************************************)
outcome(symbol, analysis) ==
  [symbol |-> symbol, action |-> analysis.action, rsi |-> analysis.rsi,
   tradeCreated |-> FALSE]

\* lines 239-247: the catch pushes an ERROR record
errorOutcome(symbol) ==
  [symbol |-> symbol, action |-> "ERROR", rsi |-> 0, tradeCreated |-> FALSE]

withResultsNext(j) ==
  IF j.i < Len(j.symbols)
  THEN [j EXCEPT !.i = @ + 1, !.pc = "analyzeStock"]
  ELSE [j EXCEPT !.i = @ + 1, !.pc = "return"]

\* a loop without the per-symbol catch: the error ends the run
withResultsRethrow(j) == [j EXCEPT !.pc = "thrown", !.result = "error"]

\* lines 239-248: the catch logs, pushes an ERROR record (job.failed notes
\* the symbol) and the loop goes on
withResultsCatch(j) ==
  withResultsNext([j EXCEPT !.analyzedStocks = Append(@, errorOutcome(j.symbols[j.i])),
                            !.failed = @ \cup {j.symbols[j.i]}])

\* lines 231-232 after executeTrade returned
tradeRecorded(j) ==
  [j EXCEPT !.tradesCreated = @ + 1,
            !.analyzedStocks[Len(j.analyzedStocks)].tradeCreated = TRUE]

analyzeAndTradeWithResults(symbols) ==
  /\ job.pc = "idle"
  /\ job' = [IdleJob EXCEPT !.op = "analyzeAndTradeWithResults",
                            !.pc = "analyzeStock", !.symbols = symbols, !.i = 1]
  /\ UNCHANGED <<trades, cash, useAlpaca, req, ret>>

\* analyzeStock(symbols[i]) resolves to analyzeStock(x) or throws
withResultsAnalyzed(x) ==
  /\ job.op = "analyzeAndTradeWithResults"
  /\ job.pc = "analyzeStock"
  /\ LET symbol == job.symbols[job.i]
         analysis == analyzeStock(x)
         pushed == [job EXCEPT !.analyzedStocks = Append(@, outcome(symbol, analysis))]
         trade == createTradeFromAnalysis(symbol, analysis, cash)
     IN IF ~analysis.ok
        THEN /\ job' = withResultsCatch(job)
             /\ UNCHANGED <<trades, cash>>
        ELSE IF ~analysis.shouldTrade \/ hasOpenPosition(trades, symbol)
                \/ trade.quantity <= 0
        THEN /\ job' = withResultsNext(pushed)
             /\ UNCHANGED <<trades, cash>>
        ELSE IF insufficientFunds(trade, cash)
        THEN /\ job' = withResultsCatch(pushed)
             /\ UNCHANGED <<trades, cash>>
        ELSE IF useAlpaca
        THEN /\ job' = [pushed EXCEPT !.pc = "placeBracketOrder", !.trade = trade,
                                      !.portfolioCash = cash]
             /\ UNCHANGED <<trades, cash>>
        ELSE /\ Len(trades) < MaxTrades
             /\ trades' = dbCreateTrade(trades, trade)
             /\ cash' = cashAfterEntry(trade, cash, cash)
             /\ job' = withResultsNext(tradeRecorded(pushed))
  /\ UNCHANGED <<useAlpaca, req, ret>>

withResultsPlaced(placed) ==
  /\ job.op = "analyzeAndTradeWithResults"
  /\ job.pc = "placeBracketOrder"
  /\ Len(trades) < MaxTrades
  /\ trades' = dbCreateTrade(trades, job.trade)
  /\ cash' = cashAfterEntry(job.trade, job.portfolioCash, cash)
  /\ job' = withResultsNext(tradeRecorded([job EXCEPT !.trade = NoTrade,
                                                      !.portfolioCash = 0]))
  /\ UNCHANGED <<useAlpaca, req, ret>>

\* the promise settles with {tradesCreated, analyzedStocks}
withResultsReturn ==
  /\ job.op = "analyzeAndTradeWithResults"
  /\ job.pc = "return"
  /\ job.todo = <<>>
  /\ job' = IdleJob
  /\ UNCHANGED <<trades, cash, useAlpaca, req, ret>>

(***************************************************************************)
(* Trading cycles: TradingScheduler.runManualSession, POST                 *)
(* /analyze-watchlist and the analysis script await one engine pass after  *)
(* the other.  job.todo holds the passes the cycle has still to start.     *)
(***************************************************************************)
\* a cycle that screens before it monitors
manualSessionScreenFirst == <<"analyzeAndTradeWithResults", "monitorPositions">>

\* runManualSession lines 190-193, POST /analyze-watchlist lines 22-25
manualSession == <<"monitorPositions", "analyzeAndTradeWithResults">>

\* the analysis script, main lines 30-33
analysisScript == <<"monitorPositions", "analyzeAndTrade">>

\* the pass op of a cycle, run up to its first await; a monitoring pass
\* that finds no open trade is at its return at once
startPass(op, symbols, todo) ==
  IF op = "monitorPositions"
  THEN LET openTrades == getOpenTrades(trades)
       IN [IdleJob EXCEPT !.op = op, !.openTrades = openTrades, !.i = 1,
                          !.pc = IF openTrades = <<>> THEN "return"
                                 ELSE "checkExitConditions",
                          !.symbols = symbols, !.todo = todo]
  ELSE [IdleJob EXCEPT !.op = op, !.i = 1, !.symbols = symbols, !.todo = todo,
                       !.pc = IF op = "analyzeAndTrade" THEN "screenStocks"
                              ELSE "analyzeStock"]

\* a cycle starts on the watchlist symbols
runSession(plan, symbols) ==
  /\ job.pc = "idle"
  /\ job' = startPass(Head(plan), symbols, Tail(plan))
  /\ UNCHANGED <<trades, cash, useAlpaca, req, ret>>

\* the awaited pass has returned: the cycle starts its next pass
sessionNext ==
  /\ job.pc = "return"
  /\ job.todo # <<>>
  /\ job' = startPass(Head(job.todo), job.symbols, Tail(job.todo))
  /\ UNCHANGED <<trades, cash, useAlpaca, req, ret>>

(***************************************************************************)
(* Specifications.  Requests and batch passes overlap at their awaits.     *)
(* Each specification is the backend under the calls its environment       *)
(* issues: single-trade requests with the monitoring pass (Spec), with the *)
(* batch entry passes (SpecBatch), and single-trade requests alone, one at *)
(* a time (SpecSeq).  SpecExit applies checkExitConditions to inputs drawn *)
(* from ExitTrades, QuoteResults and DailyResults.                         *)
(***************************************************************************)
NextRequest ==
  \/ \E tr \in ManualTrades : executeTrade(tr)
  \/ \E placed \in BOOLEAN : executeTradePlaced(placed)
  \/ \E id \in 1..(MaxTrades + 1) : closeTrade(id)
  \/ \E q \in QuoteResults, d \in DailyResults : closeTradeChecked(q, d)

NextMonitor ==
  \/ monitorPositions
  \/ \E q \in QuoteResults, d \in DailyResults : monitorChecked(q, d)
  \/ \E q \in QuoteResults, d \in DailyResults : monitorClosed(q, d)
  \/ monitorReturn

NextBatch ==
  \/ \E symbols \in SymbolLists : analyzeAndTrade(symbols)
  \/ \E x \in IndicatorInputs : screenStocksAnalyzed(x)
  \/ \E placed \in BOOLEAN : analyzeAndTradePlaced(placed)
  \/ \E symbols \in SymbolLists : analyzeAndTradeWithResults(symbols)
  \/ \E x \in IndicatorInputs : withResultsAnalyzed(x)
  \/ \E placed \in BOOLEAN : withResultsPlaced(placed)
  \/ withResultsReturn

Next == (NextRequest \/ NextMonitor) /\ UNCHANGED aside

Spec == Init /\ [][Next]_vars

NextWithBatch == (NextRequest \/ NextBatch) /\ UNCHANGED aside

SpecBatch == Init /\ [][NextWithBatch]_vars

NextSeq == NextRequest /\ UNCHANGED aside

SpecSeq == Init /\ [][NextSeq]_vars

\* trading cycles, one at a time
NextSession ==
  \/ \E symbols \in SymbolLists : runSession(manualSession, symbols)
  \/ \E symbols \in SymbolLists : runSession(analysisScript, symbols)
  \/ sessionNext
  \/ \E q \in QuoteResults, d \in DailyResults : monitorChecked(q, d)
  \/ \E q \in QuoteResults, d \in DailyResults : monitorClosed(q, d)
  \/ \E x \in IndicatorInputs : withResultsAnalyzed(x)
  \/ \E placed \in BOOLEAN : withResultsPlaced(placed)
  \/ withResultsReturn
  \/ \E x \in IndicatorInputs : screenStocksAnalyzed(x)
  \/ \E placed \in BOOLEAN : analyzeAndTradePlaced(placed)

SpecSession == Init /\ [][NextSession /\ UNCHANGED aside]_vars

\* analyzeAndTradeWithResults runs alone; each fetch and each order
\* placement it awaits settles
NextResults ==
  \/ \E symbols \in SymbolLists : analyzeAndTradeWithResults(symbols)
  \/ \E x \in IndicatorInputs : withResultsAnalyzed(x)
  \/ \E placed \in BOOLEAN : withResultsPlaced(placed)
  \/ withResultsReturn

ResultsSettle ==
  \/ \E x \in IndicatorInputs : withResultsAnalyzed(x)
  \/ \E placed \in BOOLEAN : withResultsPlaced(placed)

SpecResults ==
  /\ Init
  /\ [][NextResults /\ UNCHANGED aside]_vars
  /\ WF_vars(ResultsSettle /\ UNCHANGED aside)

\* stop-loss and take-profit levels on either side of, and at, the prices
ExitTrades ==
  [action : {"BUY", "SELL"}, stopLoss : {90, 100, 110}, takeProfit : {70, 100, 130}]

InitExit ==
  /\ InitLedger
  /\ probe \in [fn : {"checkExitConditions"}, trade : ExitTrades,
                q : QuoteResults, d : DailyResults, out : {None}]

\* checkExitConditions(trade) with the quote and bars the fetches return
applyCheckExitConditions ==
  /\ probe.fn = "checkExitConditions"
  /\ probe.out = None
  /\ probe' = [probe EXCEPT
                 !.out = Some(checkExitConditions(probe.trade, probe.q, probe.d))]
  /\ UNCHANGED ledger

NextExit == applyCheckExitConditions

SpecExit == InitExit /\ [][NextExit]_vars

(***************************************************************************)
(* Properties                                                              *)
(***************************************************************************)
RECURSIVE SumOver(_, _, _)
\* the sum of f[k] over the k in 1..n with keep[k]
SumOver(f, keep, n) ==
  IF n = 0 THEN 0
  ELSE (IF keep[n] THEN f[n] ELSE 0) + SumOver(f, keep, n - 1)

OpenBuyCosts ==
  SumOver([k \in 1..Len(trades) |-> trades[k].entryPrice * trades[k].quantity],
          [k \in 1..Len(trades) |->
             trades[k].action = "BUY" /\ trades[k].status = "OPEN"],
          Len(trades))

ClosedBuyPnl ==
  SumOver([k \in 1..Len(trades) |->
             IF trades[k].pnl = None THEN 0 ELSE trades[k].pnl[1]],
          [k \in 1..Len(trades) |->
             trades[k].action = "BUY" /\ trades[k].status = "CLOSED"],
          Len(trades))

OnlyBuys == \A k \in 1..Len(trades) : trades[k].action = "BUY"

\* C1: with single-trade requests run one at a time and only BUY trades
\* entered, cash is the initial cash minus the entry cost of the BUY trades
\* still OPEN plus the pnl of the CLOSED BUY trades.
C1_PortfolioIdentity ==
  OnlyBuys => cash = InitialCash - OpenBuyCosts + ClosedBuyPnl

\* a BUY closed at a profit or loss next to a BUY still open
C1_Witness ==
  /\ OnlyBuys
  /\ \E k \in 1..Len(trades) : trades[k].status = "OPEN"
  /\ \E k \in 1..Len(trades) :
       trades[k].status = "CLOSED" /\ trades[k].pnl # Some(0)

\* C2: executeTrade of a BUY whose cost exceeds the current cash throws
\* 'Insufficient funds' and leaves the trade rows and the cash as they were.
C2_InsufficientFundsRejected ==
  [][\A tr \in ManualTrades :
       (tr.action = "BUY" /\ tr.entryPrice * tr.quantity > cash
          /\ executeTrade(tr))
       => (/\ ret' = Returned("executeTrade", "Insufficient funds")
           /\ trades' = trades
           /\ cash' = cash
           /\ req' = req)]_vars

\* a BUY was rejected while an earlier trade holds the cash
C2_Witness ==
  /\ ret = Returned("executeTrade", "Insufficient funds")
  /\ trades # <<>>
  /\ \E tr \in ManualTrades : tr.action = "BUY" /\ cost(tr) > cash

\* C3: closeTrade on a CLOSED trade returns normally and changes neither
\* the trade rows nor the cash, so a second close in sequence leaves what
\* the first one left.
C3_CloseClosedIsNoOp ==
  [][\A id \in 1..Len(trades) :
       (trades[id].status = "CLOSED" /\ closeTrade(id))
       => (/\ ret' = Warned("closeTrade")
           /\ trades' = trades
           /\ cash' = cash
           /\ req' = req)]_vars

\* closeTrade returned early on a row that was already CLOSED
C3_Witness ==
  /\ ret = Warned("closeTrade")
  /\ \E id \in 1..Len(trades) : trades[id].status = "CLOSED"

\* C4: a row is OPEN or CLOSED, and once it is CLOSED no step changes its
\* status, exitPrice, exitDate, exitReason or pnl.
C4_ClosedIsTerminal ==
  [][/\ \A id \in 1..Len(trades') : trades'[id].status \in {"OPEN", "CLOSED"}
     /\ \A id \in 1..Len(trades) :
          trades[id].status = "CLOSED"
          => /\ trades'[id].status = "CLOSED"
             /\ trades'[id].exitPrice = trades[id].exitPrice
             /\ trades'[id].exitDate = trades[id].exitDate
             /\ trades'[id].exitReason = trades[id].exitReason
             /\ trades'[id].pnl = trades[id].pnl]_vars

\* C5: no symbol has two OPEN trades.
C5_OneOpenPerSymbol ==
  \A i, k \in 1..Len(trades) :
    (i # k /\ trades[i].status = "OPEN" /\ trades[k].status = "OPEN")
    => trades[i].symbol # trades[k].symbol

\* C6: cash is never negative.
C6_NoOverdraft == cash >= 0

\* the price conditions of an exit, as tested against a price
StopLossBreached(trade, price) ==
  \/ trade.action = "BUY" /\ price <= trade.stopLoss
  \/ trade.action = "SELL" /\ price >= trade.stopLoss

TakeProfitBreached(trade, price) ==
  \/ trade.action = "BUY" /\ price >= trade.takeProfit
  \/ trade.action = "SELL" /\ price <= trade.takeProfit

ClosedIds == {k \in 1..Len(trades) : trades[k].status = "CLOSED"}

\* C7 as stated: every CLOSED trade records a stop-loss, take-profit or
\* reversal reason, and a price reason names a condition that held at the
\* recorded exitPrice.
C7_ClosedByExitCondition ==
  \A k \in ClosedIds :
    LET reason == trades[k].exitReason[1]
        price == trades[k].exitPrice[1]
    IN /\ reason \in {"Stop loss hit", "Take profit target reached",
                      "Technical reversal signal"}
       /\ reason = "Stop loss hit" => StopLossBreached(trades[k], price)
       /\ reason = "Take profit target reached"
            => TakeProfitBreached(trades[k], price)

\* C7: every CLOSED trade records the price and the reason of the exit check
\* that closeTrade ran: the stop-loss reason exactly when that price
\* breaches the stop-loss, the take-profit reason exactly when it breaches
\* the take-profit only, and otherwise the reversal reason or, no exit
\* condition having held, 'All conditions within acceptable range'.
C7_ExitReasonOfCheck ==
  \A k \in ClosedIds :
    LET reason == trades[k].exitReason[1]
        price == trades[k].exitPrice[1]
        stop == StopLossBreached(trades[k], price)
        target == TakeProfitBreached(trades[k], price)
    IN /\ stop <=> reason = "Stop loss hit"
       /\ (~stop /\ target) <=> reason = "Take profit target reached"
       /\ (~stop /\ ~target)
            <=> reason \in {"Technical reversal signal",
                            "All conditions within acceptable range"}

\* one trade closed on its stop-loss, another closed with no exit condition
C7_Witness ==
  /\ \E k \in ClosedIds : trades[k].exitReason = Some("Stop loss hit")
  /\ \E k \in ClosedIds :
       trades[k].exitReason = Some("All conditions within acceptable range")

\* a step that inserts a trade row, a step that closes row id
TradeCreated == Len(trades') = Len(trades) + 1

TradeClosed(id) == trades[id].status = "OPEN" /\ trades'[id].status = "CLOSED"

\* C8 as stated: creating a BUY lowers cash by entryPrice*quantity and
\* creating a SELL raises it by as much; closing a BUY raises cash by
\* exitPrice*quantity and closing a SELL lowers it by as much.
C8_SymmetricCash ==
  [][/\ TradeCreated
        => LET t == trades'[Len(trades')]
           IN cash' = IF t.action = "BUY"
                      THEN cash - t.entryPrice * t.quantity
                      ELSE cash + t.entryPrice * t.quantity
     /\ \A id \in 1..Len(trades) :
          TradeClosed(id)
          => LET t == trades'[id]
             IN cash' = IF t.action = "BUY"
                        THEN cash + t.exitPrice[1] * t.quantity
                        ELSE cash - t.exitPrice[1] * t.quantity]_vars

\* C8: creating a BUY writes the cash read by its funds check minus
\* entryPrice*quantity and creating a SELL leaves cash as it is; closing a
\* BUY raises cash by exitPrice*quantity and closing a SELL lowers it by
\* exitPrice*quantity.
C8_CashMoves ==
  [][/\ TradeCreated
        => LET t == trades'[Len(trades')]
               readCash == IF req.pc = "placeBracketOrder"
                           THEN req.portfolioCash ELSE cash
           IN cash' = IF t.action = "BUY"
                      THEN readCash - t.entryPrice * t.quantity
                      ELSE cash
     /\ \A id \in 1..Len(trades) :
          TradeClosed(id)
          => LET t == trades'[id]
             IN cash' = IF t.action = "BUY"
                        THEN cash + t.exitPrice[1] * t.quantity
                        ELSE cash - t.exitPrice[1] * t.quantity]_vars

\* a SELL was entered with the cash untouched and a SELL was closed
C8_Witness ==
  /\ \E k \in 1..Len(trades) :
       trades[k].action = "SELL" /\ trades[k].status = "OPEN"
  /\ \E k \in ClosedIds : trades[k].action = "SELL"
  /\ cash # InitialCash

\* C9: when the fetched price breaches the stop-loss, checkExitConditions
\* reports shouldExit with the stop-loss reason whatever the take-profit
\* level and the indicators are; a take-profit breach alone gives the
\* take-profit reason; the reversal reason is given only when neither price
\* condition holds.
C9_StopLossFirst ==
  (probe.fn = "checkExitConditions" /\ probe.out # None /\ probe.q.ok)
  => LET result == probe.out[1]
         price == probe.q.price
         stop == StopLossBreached(probe.trade, price)
         target == TakeProfitBreached(probe.trade, price)
     IN /\ stop => result = ExitResult(TRUE, "Stop loss hit", price)
        /\ (~stop /\ target)
             => result = ExitResult(TRUE, "Take profit target reached", price)
        /\ (~result.threw /\ result.reason = "Technical reversal signal")
             => (~stop /\ ~target /\ result.shouldExit)

\* the price breaches stop-loss and take-profit at once, the bars failing
C9_Witness ==
  /\ probe.fn = "checkExitConditions"
  /\ probe.out # None
  /\ probe.q.ok
  /\ ~probe.d.ok
  /\ StopLossBreached(probe.trade, probe.q.price)
  /\ TakeProfitBreached(probe.trade, probe.q.price)

\* C10: monitorPositions never ends in an error; when it returns it has
\* examined every trade of its snapshot, and every trade whose exit check
\* fired and for which no fetch threw is CLOSED.
C10_MonitorTolerant ==
  job.op = "monitorPositions"
  => /\ job.result = "ok"
     /\ job.pc = "return"
          => /\ job.i = Len(job.openTrades) + 1
             /\ \A id \in job.fired \ job.failed :
                  trades[id].status = "CLOSED"

\* the pass returns after a failed fetch for one trade and a fired exit
\* check for a trade examined after it
C10_Witness ==
  /\ job.op = "monitorPositions"
  /\ job.pc = "return"
  /\ Len(job.openTrades) = 2
  /\ job.openTrades[1] \in job.failed
  /\ job.openTrades[2] \in job.fired \ job.failed
  /\ trades[job.openTrades[1]].status = "OPEN"

(***************************************************************************)
(* TradingStrategy.screenStocks applied to a symbol list and the analysis  *)
(* outcome of each of its symbols.                                         *)
(***************************************************************************)
MaxSymbols == 3

ScreenSymbols == <<"A", "B", "C", "D">>

\* analysis outcomes: the ones of IndicatorInputs, a BUY whose RSI is under
\* the screening band and a BUY whose price is over it
ScreenInputs ==
  IndicatorInputs \cup
  { [ok |-> TRUE, rsi |-> 20, maShort |-> 105, maLong |-> 100, atr |-> 5,
     support |-> 50, resistance |-> 200, close |-> 100],
    [ok |-> TRUE, rsi |-> 25, maShort |-> 105, maLong |-> 100, atr |-> 5,
     support |-> 50, resistance |-> 900, close |-> 600] }

InitScreen ==
  /\ InitLedger
  /\ \E n \in 0..MaxSymbols :
       probe \in [fn : {"screenStocks"}, symbols : {SubSeq(ScreenSymbols, 1, n)},
                  xs : [1..n -> ScreenInputs], out : {None}]

applyScreenStocks ==
  /\ probe.fn = "screenStocks"
  /\ probe.out = None
  /\ probe' = [probe EXCEPT !.out = Some(screenStocks(probe.symbols, probe.xs))]
  /\ UNCHANGED ledger

NextScreen == applyScreenStocks

SpecScreen == InitScreen /\ [][NextScreen]_vars

\* the position of a symbol in the list screened
IndexOf(symbols, symbol) == CHOOSE k \in 1..Len(symbols) : symbols[k] = symbol

\* C11: screenStocks returns, in input order, an entry for exactly the
\* symbols whose analysis succeeded, says shouldTrade and passes the price
\* and RSI criteria: a failed symbol gets no entry and stops nothing after
\* it.
C11_ScreenSkipsFailures ==
  (probe.fn = "screenStocks" /\ probe.out # None)
  => LET symbols == probe.symbols
         xs == probe.xs
         results == probe.out[1]
         passes(k) == /\ xs[k].ok
                      /\ signalRule(xs[k].rsi, xs[k].maShort, xs[k].maLong) # "HOLD"
                      /\ xs[k].close >= 5 /\ xs[k].close <= 500
                      /\ xs[k].rsi >= 25 /\ xs[k].rsi <= 35
     IN /\ \A j \in 1..Len(results) :
             /\ results[j].symbol \in {symbols[k] : k \in 1..Len(symbols)}
             /\ passes(IndexOf(symbols, results[j].symbol))
             /\ results[j].analysis = analyzeStock(xs[IndexOf(symbols, results[j].symbol)])
        /\ \A k \in 1..Len(symbols) :
             passes(k) => \E j \in 1..Len(results) : results[j].symbol = symbols[k]
        /\ \A i, j \in 1..Len(results) :
             i < j => IndexOf(symbols, results[i].symbol)
                        < IndexOf(symbols, results[j].symbol)

\* a failed analysis between two symbols that pass the screen
C11_Witness ==
  /\ probe.fn = "screenStocks"
  /\ probe.out # None
  /\ Len(probe.symbols) = 3
  /\ ~probe.xs[2].ok
  /\ Len(probe.out[1]) = 2

InResults == job.op = "analyzeAndTradeWithResults"

CreatedCount(records) == Cardinality({k \in 1..Len(records) : records[k].tradeCreated})

\* C12: a run of analyzeAndTradeWithResults reaches its return, and the
\* summary it returns holds one record per input symbol in input order, an
\* ERROR record exactly for the symbols whose analysis failed, and a
\* tradesCreated equal to the number of records with tradeCreated.
C12_SummaryReturned ==
  /\ [](InResults /\ job.pc = "return"
          => /\ job.result = "ok"
             /\ Len(job.analyzedStocks) = Len(job.symbols)
             /\ \A k \in 1..Len(job.symbols) :
                  /\ job.analyzedStocks[k].symbol = job.symbols[k]
                  /\ job.analyzedStocks[k].action = "ERROR"
                       <=> job.symbols[k] \in job.failed
             /\ job.tradesCreated = CreatedCount(job.analyzedStocks))
  /\ (InResults ~> (InResults /\ job.pc = "return"))

\* the summary of a run in which one symbol failed and another was traded
C12_Witness ==
  /\ InResults
  /\ job.pc = "return"
  /\ job.failed # {}
  /\ job.tradesCreated = 1

\* a step in which a batch pass, not a request, inserts a trade row
CreatedByPass == Len(trades') > Len(trades) /\ req' = req

MonitoringAhead ==
  job.op = "monitorPositions" \/ \E k \in 1..Len(job.todo) : job.todo[k] = "monitorPositions"

\* C13: within a trading cycle the screening pass inserts a trade only
\* after the cycle's monitoring pass has returned, and once the screening
\* pass has started the cycle takes no step of a monitoring pass.
C13_MonitorThenScreen ==
  [][/\ CreatedByPass => ~MonitoringAhead
     /\ job.op \in {"analyzeAndTrade", "analyzeAndTradeWithResults"}
          => job'.op # "monitorPositions"]_vars

\* a cycle whose monitoring pass closed a trade and whose screening pass
\* then entered one
C13_Witness ==
  /\ job.op = "analyzeAndTradeWithResults"
  /\ job.pc = "return"
  /\ job.tradesCreated = 1
  /\ \E k \in 1..Len(trades) : trades[k].status = "CLOSED"

\* C14: while a batch pass is suspended at an await no single-trade
\* request begins or makes progress, and while a single-trade request is
\* suspended no batch pass does.
C14_SingleWriter ==
  [][/\ job.pc # "idle" => (req' = req /\ ret' = ret)
     /\ req.pc # "idle" => job' = job]_vars

\* a step that inserts the row of trade tr and writes cash from readCash
Entered(tr, readCash) ==
  /\ Len(trades') = Len(trades) + 1
  /\ \A k \in 1..Len(trades) : trades'[k] = trades[k]
  /\ LET row == trades'[Len(trades')]
     IN /\ row.status = "OPEN"
        /\ <<row.symbol, row.action, row.quantity, row.entryPrice>>
             = <<tr.symbol, tr.action, tr.quantity, tr.entryPrice>>
  /\ cash' = IF tr.action = "BUY" THEN readCash - tr.entryPrice * tr.quantity
             ELSE cash

\* C15: when the bracket order fails executeTrade returns normally with
\* exactly one row inserted and, for a BUY, the cost taken once from the
\* cash its funds check read: the effect of a placed order and of an entry
\* with the brokerage switched off.
C15_PlacementFallback ==
  [][/\ \A placed \in BOOLEAN :
          executeTradePlaced(placed)
          => (Entered(req.trade, req.portfolioCash) /\ ret'.result = "ok")
     /\ \A tr \in ManualTrades :
          (~useAlpaca /\ ~(tr.action = "BUY" /\ tr.entryPrice * tr.quantity > cash)
             /\ executeTrade(tr))
          => (Entered(tr, cash) /\ ret'.result = "ok")]_vars

\* a BUY entered by the fallback after its bracket order failed
C15_Witness ==
  /\ ret = Warned("executeTrade")
  /\ trades # <<>>
  /\ trades[Len(trades)].action = "BUY"
  /\ cash = InitialCash - trades[Len(trades)].entryPrice * trades[Len(trades)].quantity

\* C16: closeTrade with an id that has no row throws a not-found error and
\* changes neither the trade rows nor the cash.
C16_UnknownTradeRejected ==
  [][\A id \in 1..(MaxTrades + 1) :
       (id > Len(trades) /\ closeTrade(id))
       => (/\ ret'.result = "not found"
           /\ ret'.status = 500
           /\ trades' = trades
           /\ cash' = cash
           /\ req' = req)]_vars

\* a close of an unknown id was rejected with trades in the table
C16_Witness ==
  /\ ret.op = "closeTrade"
  /\ ret.result = "not found"
  /\ trades # <<>>

\* C17: a POST /api/trades whose executeTrade fails with insufficient
\* funds is answered with an error status, not with 201.
C17_RejectionSurfaced ==
  [][\A tr \in ManualTrades :
       (tr.action = "BUY" /\ tr.entryPrice * tr.quantity > cash /\ executeTrade(tr))
       => (ret'.op = "executeTrade" /\ ret'.status >= 400)]_vars

\* a rejected BUY answered with status 500
C17_Witness ==
  /\ ret.op = "executeTrade"
  /\ ret.result = "Insufficient funds"
  /\ ret.status = 500

(***************************************************************************)
(* The signal rule, the position size and the analysis applied to inputs   *)
(* around their thresholds.                                                *)
(***************************************************************************)
SignalInputs ==
  [rsi : {0, 29, 30, 31, 50, 69, 70, 71, 100}, maShort : {99, 100, 101},
   maLong : {100, 101}]

InitSignal ==
  /\ InitLedger
  /\ probe \in [fn : {"getIndicators"}, in : SignalInputs, out : {None}]

\* getIndicators on bars whose RSI and moving averages are probe.in
applyGetIndicators ==
  /\ probe.fn = "getIndicators"
  /\ probe.out = None
  /\ probe' = [probe EXCEPT
                 !.out = Some(signalRule(probe.in.rsi, probe.in.maShort,
                                         probe.in.maLong))]
  /\ UNCHANGED ledger

NextSignal == applyGetIndicators

SpecSignal == InitSignal /\ [][NextSignal]_vars

\* C18: the signal is BUY exactly when RSI < 30 and maShort > maLong, SELL
\* exactly when RSI > 70 and maShort < maLong, and HOLD otherwise.
C18_SignalRule ==
  (probe.fn = "getIndicators" /\ probe.out # None)
  => LET in == probe.in
         signal == probe.out[1]
         buy == in.rsi < 30 /\ in.maShort > in.maLong
         sell == in.rsi > 70 /\ in.maShort < in.maLong
     IN /\ signal \in {"BUY", "SELL", "HOLD"}
        /\ signal = "BUY" <=> buy
        /\ signal = "SELL" <=> sell
        /\ signal = "HOLD" <=> (~buy /\ ~sell)
        /\ ~(buy /\ sell)

\* RSI exactly at the oversold threshold over a bullish crossover: HOLD
C18_Witness ==
  /\ probe.fn = "getIndicators"
  /\ probe.in.rsi = 30
  /\ probe.in.maShort > probe.in.maLong
  /\ probe.out = Some("HOLD")

SizeInputs ==
  [accountBalance : {-2000, 0, 950, 40000, 100000}, entryPrice : {70, 100, 130},
   stopLoss : {70, 90, 100, 110, 130}]

InitSize ==
  /\ InitLedger
  /\ probe \in [fn : {"calculatePositionSize"}, in : SizeInputs, out : {None}]

applyCalculatePositionSize ==
  /\ probe.fn = "calculatePositionSize"
  /\ probe.out = None
  /\ probe' = [probe EXCEPT
                 !.out = Some(calculatePositionSize(probe.in.accountBalance,
                                probe.in.entryPrice, probe.in.stopLoss))]
  /\ UNCHANGED ledger

NextSize == applyCalculatePositionSize

SpecSize == InitSize /\ [][NextSize]_vars

\* q is the floor of n/d, for d > 0
IsFloor(q, n, d) == q * d <= n /\ n < (q + 1) * d

ShareCounts == -50..2100

\* C19: calculatePositionSize returns 0 when entryPrice = stopLoss, and
\* otherwise the smaller of floor(balance*riskPerTrade / |entryPrice -
\* stopLoss|) and floor(balance*maxPositionSize / entryPrice).
C19_PositionSize ==
  (probe.fn = "calculatePositionSize" /\ probe.out # None)
  => LET in == probe.in
         shares == probe.out[1]
         riskPerShare == IF in.entryPrice >= in.stopLoss
                         THEN in.entryPrice - in.stopLoss
                         ELSE in.stopLoss - in.entryPrice
     IN IF riskPerShare = 0 THEN shares = 0
        ELSE \E byRisk \in ShareCounts :
               /\ IsFloor(byRisk, in.accountBalance * RiskPerTradePct,
                          100 * riskPerShare)
               /\ \E byCap \in ShareCounts :
                    /\ IsFloor(byCap, in.accountBalance * MaxPositionPct,
                               100 * in.entryPrice)
                    /\ shares = IF byRisk <= byCap THEN byRisk ELSE byCap

\* a size the cap decides, and not the risk
C19_Witness ==
  /\ probe.fn = "calculatePositionSize"
  /\ probe.out # None
  /\ probe.in.accountBalance = 100000
  /\ probe.in.entryPrice = 100
  /\ probe.in.stopLoss = 90
  /\ probe.out = Some(100)

\* bars around a close of 100: support and resistance on either side of it
AnalysisInputs ==
  [ok : {TRUE}, rsi : {25, 50, 75}, maShort : {95, 105}, maLong : {100},
   atr : {2, 5}, support : {50, 100, 150}, resistance : {50, 100, 200},
   close : {100}]
  \cup {x \in IndicatorInputs : ~x.ok}

InitAnalysis ==
  /\ InitLedger
  /\ probe \in [fn : {"analyzeStock"}, in : AnalysisInputs, out : {None}]

applyAnalyzeStock ==
  /\ probe.fn = "analyzeStock"
  /\ probe.out = None
  /\ probe' = [probe EXCEPT !.out = Some(analyzeStock(probe.in))]
  /\ UNCHANGED ledger

NextAnalysis == applyAnalyzeStock

SpecAnalysis == InitAnalysis /\ [][NextAnalysis]_vars

\* C20: a BUY analysis has stopLoss = max(entry - 2*ATR, support*0.98), a
\* SELL analysis stopLoss = min(entry + 2*ATR, resistance*1.02), and both
\* have takeProfit - entryPrice = 3*(entryPrice - stopLoss).
C20_RewardToRisk ==
  (probe.fn = "analyzeStock" /\ probe.out # None /\ probe.out[1].ok
     /\ probe.out[1].action # "HOLD")
  => LET in == probe.in
         a == probe.out[1]
         byAtr == IF a.action = "BUY" THEN in.close - 2 * in.atr
                  ELSE in.close + 2 * in.atr
         byLevel == IF a.action = "BUY" THEN (in.support * 98) \div 100
                    ELSE (in.resistance * 102) \div 100
     IN /\ a.entryPrice = in.close
        /\ a.stopLoss \in {byAtr, byLevel}
        /\ a.action = "BUY" => (a.stopLoss >= byAtr /\ a.stopLoss >= byLevel)
        /\ a.action = "SELL" => (a.stopLoss <= byAtr /\ a.stopLoss <= byLevel)
        /\ a.takeProfit - a.entryPrice = 3 * (a.entryPrice - a.stopLoss)

\* a SELL analysis whose stop is set by the resistance level
C20_Witness ==
  /\ probe.fn = "analyzeStock"
  /\ probe.out # None
  /\ probe.out[1].action = "SELL"
  /\ probe.out[1].stopLoss = 102
  /\ probe.out[1].takeProfit = 94

(***************************************************************************)
(* TechnicalAnalysis: RSI, SMA, EMA and ATR of a bar sequence, the newest  *)
(* bar first.  A result is a fraction num/den, den > 0, so that the        *)
(* quotients of the code are exact.                                        *)
(***************************************************************************)
MaxBars == 4

Periods == {2, 3}

Bars ==
  { [close |-> 10, high |-> 12, low |-> 9],
    [close |-> 12, high |-> 13, low |-> 10],
    [close |-> 9, high |-> 10, low |-> 8] }

BarSequences == UNION {[1..n -> Bars] : n \in 0..MaxBars}

InsufficientData == [threw |-> TRUE, nan |-> FALSE, num |-> 0, den |-> 1]

Value(num, den) == [threw |-> FALSE, nan |-> FALSE, num |-> num, den |-> den]

\* the result of 0/0
NotANumber == [threw |-> FALSE, nan |-> TRUE, num |-> 0, den |-> 1]

\* data.map(d => d.close).reverse(): the closes, the oldest first
closesReversed(data) == [k \in 1..Len(data) |-> data[Len(data) - k + 1].close]

RECURSIVE sumTo(_, _)
\* f[1] + ... + f[n]
sumTo(f, n) == IF n = 0 THEN 0 ELSE f[n] + sumTo(f, n - 1)

\* lines 16-26: the averages of the first period changes, as gain/den and
\* loss/den
initialAverages(prices, period) ==
  LET change == [i \in 1..period |-> prices[i + 1] - prices[i]]
  IN [gain |-> sumTo([i \in 1..period |-> IF change[i] > 0 THEN change[i] ELSE 0],
                     period),
      loss |-> sumTo([i \in 1..period |-> IF change[i] > 0 THEN 0 ELSE Abs(change[i])],
                     period),
      den |-> period]

RECURSIVE smoothedAverages(_, _, _, _)
\* lines 29-36: the smoothing over the changes after the first period ones;
\* i is the 1-based index of the older price of the change
smoothedAverages(avg, prices, period, i) ==
  IF i >= Len(prices) THEN avg
  ELSE LET change == prices[i + 1] - prices[i]
           gain == IF change > 0 THEN change ELSE 0
           loss == IF change < 0 THEN Abs(change) ELSE 0
       IN smoothedAverages([gain |-> avg.gain * (period - 1) + gain * avg.den,
                            loss |-> avg.loss * (period - 1) + loss * avg.den,
                            den |-> avg.den * period],
                           prices, period, i + 1)

\* an RSI without the test of avgLoss: rs is 0/0 for a flat sequence and
\* Infinity for one that only rises
calculateRSIUnguarded(data, period) ==
  IF Len(data) < period + 1 THEN InsufficientData
  ELSE LET prices == closesReversed(data)
           avg == smoothedAverages(initialAverages(prices, period), prices, period,
                                   period + 1)
       IN IF avg.loss = 0 /\ avg.gain = 0 THEN NotANumber
          ELSE IF avg.loss = 0 THEN Value(100, 1)
          ELSE Value(100 * (avg.loss + avg.gain) - 100 * avg.loss,
                     avg.loss + avg.gain)

\* calculateRSI: rs = avgGain/avgLoss = gain/loss, 1 + rs = (loss+gain)/loss,
\* 100/(1+rs) = 100*loss/(loss+gain)
calculateRSI(data, period) ==
  IF Len(data) < period + 1 THEN InsufficientData
  ELSE LET prices == closesReversed(data)
           avg == smoothedAverages(initialAverages(prices, period), prices, period,
                                   period + 1)
       IN IF avg.loss = 0 THEN Value(100, 1)
          ELSE Value(100 * (avg.loss + avg.gain) - 100 * avg.loss,
                     avg.loss + avg.gain)

\* an SMA that asks for one bar more than it averages
calculateSMAStrict(data, period) ==
  IF Len(data) < period + 1 THEN InsufficientData
  ELSE Value(sumTo([k \in 1..period |-> data[k].close], period), period)

\* calculateSMA: the mean of the first period closes
calculateSMA(data, period) ==
  IF Len(data) < period THEN InsufficientData
  ELSE Value(sumTo([k \in 1..period |-> data[k].close], period), period)

RECURSIVE emaFrom(_, _, _, _)
\* lines 67-69: ema = (price - ema)*2/(period+1) + ema over the prices from
\* the 1-based index i on
emaFrom(ema, prices, period, i) ==
  IF i > Len(prices) THEN ema
  ELSE emaFrom(Value((prices[i] * ema.den - ema.num) * 2 + ema.num * (period + 1),
                     ema.den * (period + 1)),
               prices, period, i + 1)

\* calculateEMA: seeded with the mean of the oldest period closes
calculateEMA(data, period) ==
  IF Len(data) < period THEN InsufficientData
  ELSE LET prices == closesReversed(data)
       IN emaFrom(Value(sumTo(prices, period), period), prices, period, period + 1)

\* lines 155-167: the true range of bar i against the close of the bar
\* before it in time
trueRange(data, i) ==
  Max(data[i].high - data[i].low,
      Max(Abs(data[i].high - data[i + 1].close),
          Abs(data[i].low - data[i + 1].close)))

\* calculateATR: the mean of the first period true ranges
calculateATR(data, period) ==
  IF Len(data) < period + 1 THEN InsufficientData
  ELSE Value(sumTo([i \in 1..period |-> trueRange(data, i)], period), period)

IndicatorNames == {"calculateRSI", "calculateSMA", "calculateEMA", "calculateATR"}

InitIndicators ==
  /\ InitLedger
  /\ probe \in [fn : IndicatorNames, data : BarSequences, period : Periods,
                out : {None}]

applyCalculateRSI ==
  /\ probe.fn = "calculateRSI"
  /\ probe.out = None
  /\ probe' = [probe EXCEPT !.out = Some(calculateRSI(probe.data, probe.period))]
  /\ UNCHANGED ledger

applyCalculateSMA ==
  /\ probe.fn = "calculateSMA"
  /\ probe.out = None
  /\ probe' = [probe EXCEPT !.out = Some(calculateSMA(probe.data, probe.period))]
  /\ UNCHANGED ledger

applyCalculateEMA ==
  /\ probe.fn = "calculateEMA"
  /\ probe.out = None
  /\ probe' = [probe EXCEPT !.out = Some(calculateEMA(probe.data, probe.period))]
  /\ UNCHANGED ledger

applyCalculateATR ==
  /\ probe.fn = "calculateATR"
  /\ probe.out = None
  /\ probe' = [probe EXCEPT !.out = Some(calculateATR(probe.data, probe.period))]
  /\ UNCHANGED ledger

NextIndicators ==
  \/ applyCalculateRSI
  \/ applyCalculateSMA
  \/ applyCalculateEMA
  \/ applyCalculateATR

SpecIndicators == InitIndicators /\ [][NextIndicators]_vars

IndicatorApplied == probe.fn \in IndicatorNames /\ probe.out # None

\* C21 as stated: each of RSI, SMA, EMA and ATR fails on fewer than
\* period+1 bars.
C21_AllNeedOneMore ==
  (IndicatorApplied /\ Len(probe.data) < probe.period + 1) => probe.out[1].threw

\* C21: RSI and ATR fail with an insufficient-data error exactly on fewer
\* than period+1 bars; SMA and EMA fail exactly on fewer than period bars
\* and return a value on exactly period bars.
C21_InsufficientData ==
  IndicatorApplied
  => LET needed == IF probe.fn \in {"calculateRSI", "calculateATR"}
                   THEN probe.period + 1 ELSE probe.period
     IN probe.out[1].threw <=> Len(probe.data) < needed

\* an SMA returned the mean of exactly period bars
C21_Witness ==
  /\ probe.fn = "calculateSMA"
  /\ probe.out # None
  /\ Len(probe.data) = probe.period
  /\ ~probe.out[1].threw
  /\ probe.out[1].num = 31
  /\ probe.out[1].den = 3

\* no close of the sequence is below the close of the bar before it in time
NeverFalls(data) ==
  \A k \in 1..(Len(data) - 1) : data[k].close >= data[k + 1].close

\* C22: on at least period+1 bars RSI returns a number between 0 and 100,
\* and exactly 100 when no change of the sequence is a loss (the smoothed
\* average loss is 0), a sequence without any change included.
C22_RsiRange ==
  (probe.fn = "calculateRSI" /\ probe.out # None
     /\ Len(probe.data) >= probe.period + 1)
  => LET rsi == probe.out[1]
     IN /\ ~rsi.threw
        /\ ~rsi.nan
        /\ rsi.den > 0
        /\ 0 <= rsi.num
        /\ rsi.num <= 100 * rsi.den
        /\ NeverFalls(probe.data) => rsi.num = 100 * rsi.den

\* RSI of a sequence of MaxBars bars without any price change
C22_Witness ==
  /\ probe.fn = "calculateRSI"
  /\ probe.out # None
  /\ Len(probe.data) = MaxBars
  /\ \A k \in 1..Len(probe.data) : probe.data[k].close = 10
  /\ probe.out = Some(Value(100, 1))

(***************************************************************************)
(* The columns of a trade row over its life                                *)
(***************************************************************************)
EntryColumns(t) ==
  <<t.symbol, t.action, t.quantity, t.entryPrice, t.stopLoss, t.takeProfit>>

ExitColumns(t) == <<t.exitPrice, t.exitDate, t.exitReason, t.pnl, t.pnlPercent>>

\* C23: no step removes a trade row or changes its symbol, action,
\* quantity, entryPrice, stopLoss or takeProfit.
C23_EntryColumnsFixed ==
  [][/\ Len(trades') >= Len(trades)
     /\ \A id \in 1..Len(trades) :
          EntryColumns(trades'[id]) = EntryColumns(trades[id])]_vars

\* a trade entered with stop 90 and target 130 was closed by the monitoring
\* pass and still carries them
C23_Witness ==
  /\ job.op = "monitorPositions"
  /\ \E id \in job.fired :
       /\ trades[id].status = "CLOSED"
       /\ trades[id].stopLoss = 90
       /\ trades[id].takeProfit = 130

C25_PnlAtClose ==
  \A id \in ClosedIds :
    LET t == trades[id]
        exitPrice == t.exitPrice[1]
    IN /\ t.action = "BUY" => t.pnl[1] = (exitPrice - t.entryPrice) * t.quantity
       /\ t.action = "SELL" => t.pnl[1] = (t.entryPrice - exitPrice) * t.quantity
       /\ t.pnlPercent[1] * t.entryPrice = (exitPrice - t.entryPrice) * 100
       /\ (t.action = "BUY" /\ exitPrice > t.entryPrice) => t.pnl[1] > 0

\* a SELL closed above its entry: a loss with a positive pnlPercent
C25_Witness ==
  \E id \in ClosedIds :
    /\ trades[id].action = "SELL"
    /\ trades[id].exitPrice = Some(130)
    /\ trades[id].pnl = Some(-18000)
    /\ trades[id].pnlPercent = Some(30)

(***************************************************************************)
(* The screening store (DatabaseManager) and the two scheduled phases that *)
(* use it (TradingScheduler): the end-of-day scan stores its picks, the    *)
(* pre-market execution enters the stored picks.                           *)
(***************************************************************************)
MaxPicks == 2

\* a pick of the scan: price 100, the exit levels on the side of its signal
Pick(symbol, signal) ==
  [symbol |-> symbol, signal |-> signal, price |-> 100,
   stopLoss |-> IF signal = "BUY" THEN 90 ELSE 110,
   takeProfit |-> IF signal = "BUY" THEN 130 ELSE 70]

Picks == {Pick(symbol, signal) : symbol \in Symbols, signal \in {"BUY", "SELL"}}

\* results.picks of one scan
PickLists == UNION {[1..n -> Picks] : n \in 0..MaxPicks}

\* a store that does not clear the stale results
storeScreeningResultsKeepingStale(rows, lastId, picks) ==
  [rows |-> rows \cup {[id |-> lastId + k, pick |-> picks[k], executed |-> FALSE] :
                         k \in 1..Len(picks)},
   lastId |-> lastId + Len(picks)]

\* storeScreeningResults(picks): DELETE of the rows with executed = 0, then
\* one INSERT per pick (executed defaults to 0, ids keep counting up)
storeScreeningResults(rows, lastId, picks) ==
  [rows |-> {r \in rows : r.executed}
            \cup {[id |-> lastId + k, pick |-> picks[k], executed |-> FALSE] :
                    k \in 1..Len(picks)},
   lastId |-> lastId + Len(picks)]

\* a read that also returns the executed results
getStoredScreeningResultsAll(rows) == rows

\* getStoredScreeningResults: the rows with executed = 0 (their order, by
\* screenedAt, is left out: the rows of one scan share a timestamp)
getStoredScreeningResults(rows) == {r \in rows : ~r.executed}

\* markScreeningResultExecuted(id): UPDATE ... SET executed = 1 WHERE id = ?
markScreeningResultExecuted(rows, id) ==
  {IF r.id = id THEN [r EXCEPT !.executed = TRUE] ELSE r : r \in rows}

\* the end-of-day handler after its scan has returned picks
endOfDayScreening(picks) ==
  /\ screening.lastId + Len(picks) <= MaxResultId
  /\ LET stored == storeScreeningResults(screening.rows, screening.lastId, picks)
     IN screening' = [screening EXCEPT !.rows = stored.rows,
                                       !.lastId = stored.lastId]
  /\ UNCHANGED <<trades, cash, useAlpaca, req, job, ret, totalValue, limiter, quotes, probe>>

\* the pre-market handler: it reads the stored picks and hands them to the
\* execution phase
preMarketExecution ==
  /\ screening.pc = "idle"
  /\ LET picks == getStoredScreeningResults(screening.rows)
     IN screening' = IF picks = {} THEN screening
                     ELSE [screening EXCEPT !.pc = "executing", !.todo = picks]
  /\ UNCHANGED <<trades, cash, useAlpaca, req, job, ret, totalValue, limiter, quotes, probe>>

\* the position the execution phase proposes for a pick
tradeFromPick(pick, accountBalance) ==
  [symbol |-> pick.symbol, action |-> pick.signal,
   quantity |-> calculatePositionSize(accountBalance, pick.price, pick.stopLoss),
   entryPrice |-> pick.price, stopLoss |-> pick.stopLoss,
   takeProfit |-> pick.takeProfit, status |-> "OPEN"]

\* the execution phase takes one of the picks handed to it: the position is
\* entered (the row inserted, cash written) or skipped, and the result is
\* marked executed
executeScreenedPick(r, entered) ==
  /\ screening.pc = "executing"
  /\ r \in screening.todo
  /\ LET tr == tradeFromPick(r.pick, cash)
     IN IF entered
        THEN /\ ~insufficientFunds(tr, cash)
             /\ Len(trades) < MaxTrades
             /\ trades' = dbCreateTrade(trades, tr)
             /\ cash' = cashAfterEntry(tr, cash, cash)
        ELSE UNCHANGED <<trades, cash>>
  /\ screening' =
       [screening EXCEPT
          !.rows = markScreeningResultExecuted(@, r.id),
          !.todo = @ \ {r},
          !.pc = IF screening.todo = {r} THEN "idle" ELSE "executing",
          !.consumed = [@ EXCEPT ![r.id] = @ + 1]]
  /\ UNCHANGED <<useAlpaca, req, job, ret, totalValue, limiter, quotes, probe>>

NextPicks ==
  \/ \E picks \in PickLists : endOfDayScreening(picks)
  \/ preMarketExecution
  \/ \E r \in screening.todo, entered \in BOOLEAN : executeScreenedPick(r, entered)

SpecPicks == Init /\ [][NextPicks]_vars

\* C26: after storeScreeningResults(picks) the unexecuted results are the
\* new picks, one row each under a new id, and the executed results are the
\* rows that were executed before.
C26_StoreReplacesUnexecuted ==
  [][\A picks \in PickLists :
       endOfDayScreening(picks)
       => LET unexecuted == {r \in screening'.rows : ~r.executed}
          IN /\ Cardinality(unexecuted) = Len(picks)
             /\ \A k \in 1..Len(picks) :
                  \E r \in unexecuted :
                    r.id = screening.lastId + k /\ r.pick = picks[k]
             /\ {r \in screening'.rows : r.executed}
                  = {r \in screening.rows : r.executed}]_vars

\* a scan was stored over an executed and an unexecuted earlier result: the
\* first result is executed, the second is gone, the third is new
C26_Witness ==
  /\ screening.lastId = 3
  /\ \E r \in screening.rows : r.id = 1 /\ r.executed
  /\ \A r \in screening.rows : r.id # 2
  /\ \E r \in screening.rows : r.id = 3 /\ ~r.executed

pnlOrZero(t) == IF t.pnl = None THEN 0 ELSE t.pnl[1]

\* the closed trades whose pnl has the sign: 1 above 0, -1 below 0, 0 any
closedWith(ts, sign) ==
  {k \in 1..Len(ts) :
     /\ ts[k].status = "CLOSED"
     /\ sign = 1 => pnlOrZero(ts[k]) > 0
     /\ sign = -1 => pnlOrZero(ts[k]) < 0}

\* reduce((sum, t) => sum + (t.pnl || 0), 0) over the rows of ids
RECURSIVE pnlSum(_, _, _)
pnlSum(ts, ids, n) ==
  IF n = 0 THEN 0
  ELSE (IF n \in ids THEN pnlOrZero(ts[n]) ELSE 0) + pnlSum(ts, ids, n - 1)

\* the quotient num/den of two integers, den > 0
Ratio(num, den) == [num |-> num, den |-> den]

\* database/index.ts lines 308-330
getStats(ts) ==
  LET closedTrades == closedWith(ts, 0)
      winningTrades == closedWith(ts, 1)
      closed == Cardinality(closedTrades)
      winning == Cardinality(winningTrades)
  IN [totalTrades |-> Len(ts),
      openTrades |-> Cardinality({k \in 1..Len(ts) : ts[k].status = "OPEN"}),
      closedTrades |-> closed,
      totalPnL |-> pnlSum(ts, closedTrades, Len(ts)),
      winRate |-> IF closed > 0 THEN Ratio(winning * 100, closed) ELSE Ratio(0, 1),
      avgWin |-> IF winning > 0
                 THEN Ratio(pnlSum(ts, winningTrades, Len(ts)), winning)
                 ELSE Ratio(0, 1),
      avgLoss |-> IF closed - winning > 0
                  THEN Ratio(pnlSum(ts, closedWith(ts, -1), Len(ts)), closed - winning)
                  ELSE Ratio(0, 1)]

RECURSIVE investedIn(_, _, _)
\* the reduce over the open trades: entryPrice*quantity of those whose
\* action counts
investedIn(ts, actions, n) ==
  IF n = 0 THEN 0
  ELSE (IF ts[n].status = "OPEN" /\ ts[n].action \in actions
        THEN ts[n].entryPrice * ts[n].quantity ELSE 0)
       + investedIn(ts, actions, n - 1)

\* statistics that value every open trade, short positions included
getPortfolioStatsAllOpen(ts, portfolioCash) ==
  LET investedCapital == investedIn(ts, {"BUY", "SELL"}, Len(ts))
  IN [cash |-> portfolioCash, initialCash |-> InitialCash,
      investedCapital |-> investedCapital,
      totalValue |-> portfolioCash + investedCapital]

getPortfolioStats(ts, portfolioCash) ==
  LET investedCapital == investedIn(ts, {"BUY"}, Len(ts))
  IN [cash |-> portfolioCash, initialCash |-> InitialCash,
      investedCapital |-> investedCapital,
      totalValue |-> portfolioCash + investedCapital,
      stats |-> getStats(ts)]

\* GET /api/trades/stats/portfolio: the statistics are computed and sent
portfolioStatsRoute ==
  /\ probe' = [fn |-> "getPortfolioStats", out |-> getPortfolioStats(trades, cash)]
  /\ UNCHANGED ledger

NextStats == (NextRequest /\ UNCHANGED aside) \/ portfolioStatsRoute

SpecStats == Init /\ [][NextStats]_vars

\* C28: getPortfolioStats changes no trade row and no field of the
\* portfolio row, and reports investedCapital as the sum of
\* entryPrice*quantity over the OPEN BUY trades and totalValue as cash plus
\* investedCapital.
C28_StatsPureRead ==
  [][portfolioStatsRoute
     => /\ trades' = trades
        /\ cash' = cash
        /\ totalValue' = totalValue
        /\ screening' = screening
        /\ probe'.out.cash = cash
        /\ probe'.out.investedCapital = OpenBuyCosts
        /\ probe'.out.totalValue = cash + OpenBuyCosts]_vars

\* statistics read while a BUY and a SELL are open: only the BUY is invested
C28_Witness ==
  /\ probe.fn = "getPortfolioStats"
  /\ Len(trades) = 2
  /\ \E k \in 1..Len(trades) : trades[k].action = "BUY" /\ trades[k].status = "OPEN"
  /\ \E k \in 1..Len(trades) : trades[k].action = "SELL" /\ trades[k].status = "OPEN"
  /\ probe.out.investedCapital = 60000
  /\ probe.out.totalValue = cash + 60000

\* C29: the totalValue of the portfolio row is its cash plus the sum of
\* entryPrice*quantity over the OPEN BUY trades.
C29_TotalValueInStep == totalValue = cash + OpenBuyCosts

\* C30: a close is applied once: cash moves only on a step that inserts a
\* trade or takes a trade from OPEN to CLOSED, and the exit fields of a row
\* are written only by the step that takes it from OPEN to CLOSED.
C30_CloseAppliedOnce ==
  [][/\ cash' # cash
        => (TradeCreated \/ \E id \in 1..Len(trades) : TradeClosed(id))
     /\ \A id \in 1..Len(trades) :
          ExitColumns(trades'[id]) # ExitColumns(trades[id]) => TradeClosed(id)]_vars

\* C31: the step that inserts a BUY trade deducts its cost from the cash of
\* that moment, so that no cash update made while the order was being
\* placed is lost, and the cost does not exceed that cash.
C31_NoLostCashUpdate ==
  [][(TradeCreated /\ trades'[Len(trades')].action = "BUY")
     => LET t == trades'[Len(trades')]
        IN /\ cash' = cash - t.entryPrice * t.quantity
           /\ t.entryPrice * t.quantity <= cash]_vars

\* a step that inserts a SELL trade, a step that closes a SELL trade
SellCreated == TradeCreated /\ trades'[Len(trades')].action = "SELL"

\* C35: executeTrade of a SELL trade is never rejected for funds and leaves
\* cash as it is through the insertion of the trade; the step that closes
\* a SELL trade lowers cash by exitPrice*quantity.
C35_ShortEntryFree ==
  [][/\ \A tr \in ManualTrades :
          (tr.action = "SELL" /\ executeTrade(tr))
          => /\ cash' = cash
             /\ IF useAlpaca
                THEN req'.pc = "placeBracketOrder" /\ req'.trade = tr
                ELSE SellCreated /\ ret' = Returned("executeTrade", "ok")
     /\ SellCreated => cash' = cash
     /\ \A id \in 1..Len(trades) :
          (TradeClosed(id) /\ trades[id].action = "SELL")
          => cash' = cash - trades'[id].exitPrice[1] * trades[id].quantity]_vars

\* a SELL of cost 60000 was entered with 40000 of cash, and closed
C35_Witness ==
  /\ Len(trades) = 2
  /\ trades[1].action = "BUY" /\ trades[1].status = "OPEN"
  /\ trades[2].action = "SELL" /\ trades[2].status = "CLOSED"
  /\ cash = 40000 - trades[2].exitPrice[1] * trades[2].quantity

\* C33: for every balance, zero and negative included, the position that
\* calculatePositionSize sizes costs at least 0 and at most
\* max(0, balance*maxPositionSize), so it never exceeds the balance.
C33_SizedWithinCap ==
  (probe.fn = "calculatePositionSize" /\ probe.out # None)
  => LET in == probe.in
         positionCost == probe.out[1] * in.entryPrice
     IN /\ 0 <= positionCost
        /\ 100 * positionCost <= Max(0, in.accountBalance * MaxPositionPct)
        /\ (probe.out[1] > 0 => positionCost <= in.accountBalance)

\* the rows a step adds to the trades table
NewRows == {trades'[k] : k \in (Len(trades) + 1)..Len(trades')}

\* the trade a batch pass holds while its bracket order is being placed
Pending(j) == IF j.trade = NoTrade THEN {} ELSE {j.trade}

WellFormedEntry(t) ==
  t.action \in {"BUY", "SELL"} /\ t.quantity > 0 /\ t.status = "OPEN"

\* t is a trade for a screened entry, with the signal of its indicators
FromSignal(t, screened) ==
  \E k \in 1..Len(screened) :
    /\ screened[k].symbol = t.symbol
    /\ t.action = signalRule(screened[k].analysis.rsi,
                             screened[k].analysis.maShort,
                             screened[k].analysis.maLong)

SameEntry(t, u) ==
  t.symbol = u.symbol /\ t.action = u.action /\ t.quantity = u.quantity

\* C34: every trade a batch pass inserts, or hands to the broker, has the
\* action BUY or SELL of the signal computed for its symbol, a quantity
\* above 0 and status OPEN; a HOLD signal or a size of 0 or less gives none.
C34_BatchTradesWellFormed ==
  [][/\ \A x \in IndicatorInputs :
          screenStocksAnalyzed(x)
          => LET screened == screenStep(job.screened, job.symbols[job.i], x)
             IN /\ \A t \in NewRows :
                     WellFormedEntry(t) /\ FromSignal(t, screened)
                /\ \A t \in Pending(job') :
                     WellFormedEntry(t) /\ FromSignal(t, screened)
     /\ \A placed \in BOOLEAN :
          analyzeAndTradePlaced(placed)
          => /\ \A t \in NewRows :
                  /\ WellFormedEntry(t)
                  /\ SameEntry(t, job.trade) \/ FromSignal(t, job.screened)
             /\ \A t \in Pending(job') :
                  WellFormedEntry(t) /\ FromSignal(t, job.screened)
     /\ \A x \in IndicatorInputs :
          withResultsAnalyzed(x)
          => LET signal == signalRule(x.rsi, x.maShort, x.maLong)
                 made(t) == /\ WellFormedEntry(t)
                            /\ x.ok
                            /\ t.symbol = job.symbols[job.i]
                            /\ t.action = signal
             IN /\ \A t \in NewRows : made(t)
                /\ \A t \in Pending(job') : made(t)
                /\ (x.ok /\ signal = "HOLD") => trades' = trades
     /\ \A placed \in BOOLEAN :
          withResultsPlaced(placed)
          => \A t \in NewRows : WellFormedEntry(t) /\ SameEntry(t, job.trade)]_vars

\* both passes have created a trade: 100 shares, the size the cap allows
\* with cash 100000, then 90 shares with the 90000 left
C34_Witness ==
  /\ Len(trades) = 2
  /\ trades[1].quantity = 100 /\ trades[1].action = "BUY"
  /\ trades[2].quantity = 90 /\ trades[2].action = "SELL"
  /\ job.op = "analyzeAndTradeWithResults"
  /\ job.tradesCreated = 1

\* C32: every trade analyzeAndTrade or analyzeAndTradeWithResults creates,
\* or hands to the broker, comes from an analysis that met the screening
\* criteria, and on the same analysis and the same ledger a step of
\* analyzeAndTradeWithResults leaves the trades that screening that symbol
\* and running the trade loop of analyzeAndTrade would leave.
C32_TradesPassScreening ==
  [][/\ \A x \in IndicatorInputs :
          screenStocksAnalyzed(x)
          => LET screened == screenStep(job.screened, job.symbols[job.i], x)
             IN \A t \in NewRows :
                  \E k \in 1..Len(screened) :
                    /\ screened[k].symbol = t.symbol
                    /\ meetsCriteria(screened[k].analysis)
     /\ \A x \in IndicatorInputs :
          withResultsAnalyzed(x)
          => LET alone == tradeLoop(screenStep(<<>>, job.symbols[job.i], x),
                                    trades, cash)
             IN /\ (NewRows # {} \/ Pending(job') # {})
                   => meetsCriteria(analyzeStock(x))
                /\ trades' = alone.trades
                /\ Pending(job') = Pending(alone)]_vars

(***************************************************************************)
(* AlpacaMarketDataService: the rate limiter.  Time is counted in units of *)
(* 30 s.  A caller runs waitForRateLimit before each provider call; the    *)
(* method is synchronous up to its setTimeout and from it to its end.      *)
(***************************************************************************)
\* 60000 ms
Minute == 2

\* the limit of 100 calls, scaled down
API_LIMIT_PER_MINUTE == 2

besidesLimiter ==
  <<trades, cash, useAlpaca, req, job, ret, screening, totalValue, quotes, probe>>

\* lines 24-30
resetApiCounter(l) ==
  IF l.now - l.lastResetTime >= Minute
  THEN [l EXCEPT !.apiCallCount = 0, !.lastResetTime = l.now,
                 !.starts = @ \cup {l.now}]
  ELSE l

\* line 43, and the provider call the caller makes on return
admitted(l) == [l EXCEPT !.apiCallCount = @ + 1, !.calls[l.now] = @ + 1]

\* lines 32-37 and 43: the caller is admitted, or suspends at the setTimeout
waitForRateLimit(c) ==
  /\ limiter.pc[c] = "idle"
  /\ LET l == resetApiCounter(limiter)
         waitTime == Minute - (l.now - l.lastResetTime)
     IN limiter' = IF l.apiCallCount >= API_LIMIT_PER_MINUTE /\ waitTime > 0
                   THEN [l EXCEPT !.pc[c] = "waiting", !.wake[c] = l.now + waitTime]
                   ELSE admitted(l)
  /\ UNCHANGED besidesLimiter

\* lines 38-43: the timer has fired; the counter and the window are reset
waitForRateLimitResumed(c) ==
  /\ limiter.pc[c] = "waiting"
  /\ limiter.now >= limiter.wake[c]
  /\ limiter' = admitted([limiter EXCEPT !.apiCallCount = 0,
                                         !.lastResetTime = limiter.now,
                                         !.starts = @ \cup {limiter.now},
                                         !.pc[c] = "idle", !.wake[c] = 0])
  /\ UNCHANGED besidesLimiter

\* 30 s pass
limiterTick ==
  /\ limiter.now < LimiterMaxTime
  /\ limiter' = [limiter EXCEPT !.now = @ + 1]
  /\ UNCHANGED besidesLimiter

NextLimiter ==
  \/ \E c \in Callers : waitForRateLimit(c)
  \/ \E c \in Callers : waitForRateLimitResumed(c)
  \/ limiterTick

SpecLimiter == Init /\ [][NextLimiter]_vars

\* the provider calls admitted at the times from..to
RECURSIVE CallsBetween(_, _)
CallsBetween(from, to) ==
  IF from > to \/ from > LimiterMaxTime THEN 0
  ELSE limiter.calls[from] + CallsBetween(from + 1, to)

\* C36: in the minute that follows each value lastResetTime has taken, at
\* most API_LIMIT_PER_MINUTE provider calls are admitted.
C36_WindowWithinLimit ==
  \A s \in limiter.starts :
    CallsBetween(s, s + Minute - 1) <= API_LIMIT_PER_MINUTE

(***************************************************************************)
(* AlpacaMarketDataService.getQuote for one symbol.  Time is counted in    *)
(* units of 100 s.  A quote is known by the time the provider was asked    *)
(* for it; a fetch completes within the unit of time in which it starts.   *)
(***************************************************************************)
\* CACHE_DURATION_MS = 300000, and the two ages of the database cache: 5
\* and 60 minutes
CACHE_DURATION == 3

DbCacheMarketHours == 3

DbCacheOffHours == 36

\* the market hours a run may see: none, all of it, or an open near its end
MarketSessions ==
  {[open |-> 0, close |-> 0], [open |-> 0, close |-> QuoteMaxTime + 1],
   [open |-> QuoteMaxTime - 3, close |-> QuoteMaxTime + 1]}

besidesQuotes ==
  <<trades, cash, useAlpaca, req, job, ret, screening, totalValue, limiter, probe>>

\* lines 46-52
getCached(cache, now) ==
  IF cache # None /\ now - cache[1].timestamp < CACHE_DURATION
  THEN Some(cache[1].data)
  ELSE None

\* lines 54-68, for the session of the run
isMarketHours(session, now) == now >= session.open /\ now < session.close

\* database/index.ts lines 288-295
getCachedQuote(row, now, maxAge) ==
  IF row # None /\ row[1].updatedAt > now - maxAge THEN Some(row[1].quote) ELSE None

\* lines 71-150: the memory cache, the database cache with the age of the
\* hour, then the provider (fetchedOk: it answers, else the call throws)
getQuote(fetchedOk) ==
  /\ probe.fn = "getQuote"
  /\ quotes.returned = None
  /\ LET now == quotes.now
         memCached == getCached(quotes.quoteCache, now)
         dbCacheAge == IF isMarketHours(probe.session, now)
                       THEN DbCacheMarketHours ELSE DbCacheOffHours
         dbCached == getCachedQuote(quotes.dbCache, now, dbCacheAge)
         answer(quote) == Some([quote |-> quote, at |-> now, allowed |-> dbCacheAge])
     IN IF memCached # None
        THEN quotes' = [quotes EXCEPT !.returned = answer(memCached[1])]
        ELSE IF dbCached # None
        THEN quotes' = [quotes EXCEPT
                          !.quoteCache = Some([data |-> dbCached[1], timestamp |-> now]),
                          !.returned = answer(dbCached[1])]
        ELSE IF fetchedOk
        THEN quotes' = [quotes EXCEPT
                          !.quoteCache = Some([data |-> now, timestamp |-> now]),
                          !.dbCache = Some([quote |-> now, updatedAt |-> now]),
                          !.returned = answer(now)]
        ELSE UNCHANGED quotes
  /\ UNCHANGED besidesQuotes

\* the caller has its quote
quoteTaken ==
  /\ quotes.returned # None
  /\ quotes' = [quotes EXCEPT !.returned = None]
  /\ UNCHANGED besidesQuotes

\* 100 s pass
quoteTick ==
  /\ quotes.returned = None
  /\ quotes.now < QuoteMaxTime
  /\ quotes' = [quotes EXCEPT !.now = @ + 1]
  /\ UNCHANGED besidesQuotes

InitQuotes ==
  /\ InitLedger
  /\ probe \in [fn : {"getQuote"}, session : MarketSessions]

NextQuotes ==
  \/ \E fetchedOk \in BOOLEAN : getQuote(fetchedOk)
  \/ quoteTaken
  \/ quoteTick

SpecQuotes == InitQuotes /\ [][NextQuotes]_vars

\* C37: a quote getQuote returns was fetched from the provider no longer
\* ago than the age of the database cache at the time of the call.
C37_QuoteFresh ==
  quotes.returned # None
  => quotes.returned[1].at - quotes.returned[1].quote <= quotes.returned[1].allowed

\* the ratio r is the mean of the pnl of the rows of ids, 0 if there is none
IsMeanPnl(r, ids) ==
  IF ids = {} THEN r.num = 0
  ELSE r.num * Cardinality(ids) = pnlSum(trades, ids, Len(trades)) * r.den

\* C38: in the statistics sent, avgLoss is the mean pnl of the closed trades
\* with pnl < 0, avgWin the mean pnl of those with pnl > 0, each 0 when
\* there is none, and winRate is winning/closed*100, 0 when none is closed.
C38_Averages ==
  [][portfolioStatsRoute
     => LET stats == probe'.out.stats
            closed == Cardinality(closedWith(trades, 0))
            winning == Cardinality(closedWith(trades, 1))
        IN /\ IsMeanPnl(stats.avgLoss, closedWith(trades, -1))
           /\ IsMeanPnl(stats.avgWin, closedWith(trades, 1))
           /\ IF closed = 0 THEN stats.winRate.num = 0
              ELSE stats.winRate.num * closed = winning * 100 * stats.winRate.den]_vars

(***************************************************************************)
(* TradingStrategy.analyzeStock from the bars: ATR, support and resistance *)
(* and the latest close are computed from dailyData, the most recent bar   *)
(* first; the signal is the one of the rsi and moving averages given.      *)
(***************************************************************************)
\* the period of calculateATR, 14 by default, scaled down
AtrPeriod == 2

\* the lookback of calculateSupportResistance
Lookback == 20

TargetPrices == {50, 100, 150}

\* the bars with high >= close >= low > 0 over TargetPrices
WellFormedBars ==
  {b \in [close : TargetPrices, high : TargetPrices, low : TargetPrices] :
     b.high >= b.close /\ b.close >= b.low /\ b.low > 0}

\* enough bars for the ATR, with an ATR that is a whole number, and one
\* sequence that is too short
TargetBars ==
  {data \in [1..(AtrPeriod + 1) -> WellFormedBars] :
     calculateATR(data, AtrPeriod).num % AtrPeriod = 0}
  \cup {<<[close |-> 100, high |-> 150, low |-> 50]>>}

\* rsi and moving averages of a BUY, a SELL and a HOLD signal
SignalChoices ==
  {[rsi |-> 25, maShort |-> 105, maLong |-> 100],
   [rsi |-> 75, maShort |-> 95, maLong |-> 100],
   [rsi |-> 50, maShort |-> 100, maLong |-> 100]}

\* support and resistance taken from the bars before the latest one
calculateSupportResistanceBeforeLatest(data, lookback) ==
  LET recentData == 2..Min(Len(data), lookback + 1)
      highs == {data[k].high : k \in recentData}
      lows == {data[k].low : k \in recentData}
  IN [resistance |-> CHOOSE h \in highs : \A other \in highs : other <= h,
      support |-> CHOOSE l \in lows : \A other \in lows : l <= other]

\* part_003 lines 136-145: data.slice(0, lookback), the highest high and
\* the lowest low
calculateSupportResistance(data, lookback) ==
  LET recentData == 1..Min(Len(data), lookback)
      highs == {data[k].high : k \in recentData}
      lows == {data[k].low : k \in recentData}
  IN [resistance |-> CHOOSE h \in highs : \A other \in highs : other <= h,
      support |-> CHOOSE l \in lows : \A other \in lows : l <= other]

\* alpacaService.ts lines 326-332: what analyzeStock derives from dailyData;
\* calculateATR throws on too few bars
indicatorsOf(dailyData, chosen) ==
  LET atr == calculateATR(dailyData, AtrPeriod)
      supportResistance == calculateSupportResistance(dailyData, Lookback)
  IN IF atr.threw
     THEN [ok |-> FALSE, rsi |-> 0, maShort |-> 0, maLong |-> 0, atr |-> 0,
           support |-> 0, resistance |-> 0, close |-> 0]
     ELSE [ok |-> TRUE, rsi |-> chosen.rsi, maShort |-> chosen.maShort,
           maLong |-> chosen.maLong, atr |-> atr.num \div atr.den,
           support |-> supportResistance.support,
           resistance |-> supportResistance.resistance,
           close |-> dailyData[1].close]

InitTargets ==
  /\ InitLedger
  /\ probe \in [fn : {"analyzeStockOnBars"}, data : TargetBars,
                chosen : SignalChoices, out : {None}]

applyAnalyzeStockOnBars ==
  /\ probe.fn = "analyzeStockOnBars"
  /\ probe.out = None
  /\ probe' = [probe EXCEPT
                 !.out = Some(analyzeStock(indicatorsOf(probe.data, probe.chosen)))]
  /\ UNCHANGED ledger

NextTargets == applyAnalyzeStockOnBars

SpecTargets == InitTargets /\ [][NextTargets]_vars

\* C39: on bars with high >= close >= low > 0, a BUY analysis has
\* stopLoss <= entryPrice <= takeProfit and a SELL analysis has
\* takeProfit <= entryPrice <= stopLoss.
C39_TargetsOnTheirSide ==
  (probe.fn = "analyzeStockOnBars" /\ probe.out # None /\ probe.out[1].ok)
  => LET a == probe.out[1]
     IN /\ a.action = "BUY"
           => a.stopLoss <= a.entryPrice /\ a.entryPrice <= a.takeProfit
        /\ a.action = "SELL"
           => a.takeProfit <= a.entryPrice /\ a.entryPrice <= a.stopLoss

\* a BUY at the low of a range that was higher before: the stop is the
\* support, 2% under the latest low
C39_Witness ==
  /\ probe.fn = "analyzeStockOnBars"
  /\ probe.out # None
  /\ probe.data[1] = [close |-> 50, high |-> 50, low |-> 50]
  /\ probe.data[2] = [close |-> 150, high |-> 150, low |-> 150]
  /\ probe.out[1].action = "BUY"
  /\ probe.out[1].entryPrice = 50
  /\ probe.out[1].stopLoss = 49
  /\ probe.out[1].takeProfit = 53

====
